---- MODULE Spec2Model ----
(***************************************************************************)
(* AniArtwork: the generation-and-caching orchestration of the artwork     *)
(* service, modelled over its deployment variants:                         *)
(*   "gin"    the Go service of server.mjs:652-1022 with utils.go          *)
(*            (temp-then-rename clips, format-aware iCloud art),           *)
(*   "asynq"  the Go service of unnamed/part_002 with task.go (saveJPEG):  *)
(*            clips wait in a select as in unnamed/part_001, squares and   *)
(*            iCloud art go through the asynq task queue,                  *)
(*   "bull"   the Node service of server.mjs:243-650: clips and squares    *)
(*            go through bull queues.                                      *)
(* The file system is modelled with inodes, so that a writer that holds a  *)
(* file open keeps writing to it after it was renamed or unlinked.         *)
(* Spec is the service; SquareSpec starts the artist-square generator      *)
(* directly on any number of urls, and SelectSpec calls                    *)
(* getHighQualityStreamURL of utils.go on every bounded master playlist.   *)
(***************************************************************************)
EXTENDS Integers, Sequences, FiniteSets, TLC

\* ------------------------------------------------------------------ bounds
NReq == 2            \* generate requests in one behaviour
NKeys == 2           \* distinct cache keys per artifact class
MaxRetry == 1        \* retries asynq grants a failed task (library default 25)
MaxUrls == 5         \* image urls in one artist-square request
MaxRenditions == 3   \* renditions in one master playlist
MaxKeyUrls == 3      \* urls in one call of generateArtistSquareKey
MaxUrlLen == 2       \* characters in one such url
MaxBadRenditions == 2   \* renditions in one playlist with malformed attributes
MaxLines == 4        \* lines in one manifest of arbitrary lines

\* ------------------------------------------------------- program constants
AsynqConcurrency == 10     \* asynq.Config{Concurrency: 10}
BullConcurrency == 3       \* processQueue.process(3, ...)
MaxAttempts == 3           \* maxRetries := 3
RestyRetryCount == 3       \* SetRetryCount(3)

Deploys == {"gin", "asynq", "bull"}
Classes == {"clip", "square", "icloud"}
Reqs == 1..NReq
Keys == 1..NKeys

\* Formats downloadImage can hand to generateICloudArtAsync: image.Decode's
\* registered names and the keys of the fallback decoder map.
Formats == {"jpg", "jpeg", "png", "gif", "webp"}
\* A probe list that tries png first (used to test C16).
ProbeOrderPngFirst == <<"png", "jpg", "jpeg", "gif">>

\* formats := []string{"jpg", "jpeg", "png", "gif"}
ProbeOrder == <<"jpg", "jpeg", "png", "gif">>
\* A saveImage that also encodes webp (used to test C36).
EncodableWithWebp == {"jpg", "jpeg", "png", "gif", "webp"}
\* saveImage's switch: the formats it can encode
Encodable == {"jpg", "jpeg", "png", "gif"}

TempName == "_temp.gif"

\* Host names, as their sequences of labels.
MvodHost == <<"mvod", "itunes", "apple", "com">>
ArtHost == <<"is1-ssl", "mzstatic", "com">>
Hosts ==
    {MvodHost, ArtHost, <<"apple", "com">>, <<"fakeapple", "com">>,
     <<"apple", "com", "example", "org">>}

\* The files the service names: <<class, key, name>> stands for
\* {dir(class)}/{key}{name} with name "_temp.gif" or ".{ext}".
Paths ==
    ({"clip"} \X Keys \X {"gif", TempName})
    \cup ({"square"} \X Keys \X {"jpg"})
    \cup ({"icloud"} \X Keys \X Formats)

\* Which classes a deployment serves.
Serves(d, c) == IF d = "bull" THEN c \in {"clip", "square"} ELSE TRUE
\* Which classes go through a work queue.
Queued(d, c) ==
    \/ d = "asynq" /\ c \in {"square", "icloud"}
    \/ d = "bull" /\ c \in {"clip", "square"}

VARIABLES
    deploy,   \* the deployment variant, fixed for a behaviour
    files,    \* path -> inode number, 0 when the path does not exist
    inode,    \* inode number -> [st: content, by: the run that last opened it]
    req,      \* generate request -> handler state and response, with the
              \* number of urls it carried and whether all their hosts are
              \* allow-listed ("in") or not ("out")
    task,     \* generate request -> its generation run (goroutine or job attempt)
    job,      \* generate request -> its queue job
    did,      \* generate request -> the work done on its behalf, a subset of
              \* {"fetch", "transform", "write", "enqueue"}
    manifest, \* the master playlist handed to getHighQualityStreamURL
    stream,   \* what getHighQualityStreamURL returned for it
    imageUrls, \* the url slice of an artist-square request (request.ImageURLs)
    squareKey, \* the key generateArtistSquareKey derived from it
    image,    \* what the server holds at the url handed to downloadImage
    decoded   \* what downloadImage did with it and returned

\* the variables of the image download called on its own
decoding == <<image, decoded>>
\* the variables of the stream selection called on its own
selection == <<manifest, stream>>
\* the variables of the key derivation called on its own
derivation == <<imageUrls, squareKey>>
vars == <<deploy, files, inode, req, task, job, did, manifest, stream, imageUrls,
          squareKey, image, decoded>>

NoInode == [st |-> "none", by |-> 0]
NoTask == [pc |-> "none", err |-> FALSE, ino |-> 0, fmt |-> "-"]
\* a queue job: its state, its attempts, and its payload (the task type, the
\* key and the urls, kept as their number and whether all are allow-listed,
\* and whether json.Unmarshal accepts the bytes)
NoJob ==
    [st |-> "none", tries |-> 0, cls |-> "-", key |-> 0, n |-> 0, host |-> "-",
     decodes |-> TRUE]
\* no url handed to downloadImage, nothing returned
NoImage == [ctype |-> "-", head |-> "-", data |-> "-", ext |-> "-", fetch |-> <<>>]
NoResult == [by |-> "-", tries |-> 0, tried |-> <<>>, err |-> "-", format |-> "-"]
NoReq == [st |-> "new", cls |-> "-", key |-> 0, status |-> 0, url |-> "-", msg |-> "-",
          n |-> 0, host |-> "-"]

\* ------------------------------------------------------------ file system
Exists(p) == files[p] # 0
Content(p) == IF files[p] = 0 THEN "none" ELSE inode[files[p]].st

\* Inodes that are reachable: linked at a path or held open by a running writer.
Held(t, i) == \E r \in Reqs : t[r].ino = i /\ t[r].pc \in {"write", "close"}
Linked(f, i) == \E p \in Paths : f[p] = i
\* Forget the content of inodes nobody can reach any more.
Collect(f, n, t) ==
    [i \in Reqs |-> IF Linked(f, i) \/ Held(t, i) THEN n[i] ELSE NoInode]

\* open(path, O_CREAT|O_TRUNC): an existing file is truncated in place, a
\* missing one is created; either way the opener holds the inode.
OpenIno(p, r) == IF files[p] = 0 THEN r ELSE files[p]
FilesOpen(p, r) == [files EXCEPT ![p] = OpenIno(p, r)]
InodeOpen(p, r) == [inode EXCEPT ![OpenIno(p, r)] = [st |-> "empty", by |-> r]]
\* a writer appends bytes to the inode it holds
InodeWrite(i) == [inode EXCEPT ![i].st = IF @ = "empty" THEN "partial" ELSE @]
\* a writer writes its last byte: the content is whole when nobody truncated
\* the inode after this writer opened it
InodeFinish(i, r) ==
    [inode EXCEPT ![i].st =
        IF inode[i].by = r THEN "full" ELSE IF @ = "empty" THEN "partial" ELSE @]

\* ------------------------------------------------------------------ paths
FinalName(c, fmt) == IF c = "clip" THEN "gif" ELSE IF c = "square" THEN "jpg" ELSE fmt
FinalPath(c, k, fmt) == <<c, k, FinalName(c, fmt)>>
\* One temporary file for all keys (used to test C37).
TempPathShared(k) == <<"clip", 1, TempName>>
TempPath(k) == <<"clip", k, TempName>>
\* The Go clip generator writes to {key}_temp.gif and renames; every other
\* writer (saveImage, saveJPEG, fluent-ffmpeg, fs.writeFile) opens the final path.
Target(d, c, k, fmt) ==
    IF c = "clip" /\ d # "bull" THEN TempPath(k) ELSE FinalPath(c, k, fmt)

\* The first existing {key}.{format} in probe order, "" when there is none.
RECURSIVE ProbeFrom(_, _)
ProbeFrom(k, i) ==
    IF i > Len(ProbeOrder) THEN ""
    ELSE IF Exists(<<"icloud", k, ProbeOrder[i]>>) THEN ProbeOrder[i]
    ELSE ProbeFrom(k, i + 1)
Probe(k) == ProbeFrom(k, 1)

\* A cache check that finds a file whatever the store holds (used to test
\* C35).
CacheCheckBlind(d, c, k) == FinalName(c, "jpg")

\* The cache check of a generate handler and of a queue job: the name of
\* the file found at the final path, "" when there is none.
CacheCheck(d, c, k) ==
    IF c = "icloud" /\ d = "gin" THEN Probe(k)
    ELSE IF Exists(FinalPath(c, k, "jpg")) THEN FinalName(c, "jpg") ELSE ""

\* --------------------------------------------------------------- requests
Arrived(r) == req[r].st # "new"
\* requests are numbered in their order of arrival
MayArrive(r) == req[r].st = "new" /\ \A q \in Reqs : q < r => Arrived(q)
\* keys are numbered, per class, in the order in which requests first name them
SeenKeys(c) == {req[q].key : q \in {x \in Reqs : Arrived(x) /\ req[x].cls = c}}
NextKey(c, k) == \A j \in Keys : j < k => j \in SeenKeys(c)

Respond(r, c, k, status, msg, url) ==
    [req EXCEPT ![r] = [@ EXCEPT !.st = "done", !.cls = c, !.key = k,
                                 !.status = status, !.url = url, !.msg = msg]]
Wait(r, c, k) ==
    [req EXCEPT ![r] = [@ EXCEPT !.st = "waiting", !.cls = c, !.key = k,
                                 !.status = 0, !.url = "-", !.msg = "-"]]

\* strings.HasSuffix(hostname, "." + domain), on label sequences: the dot
\* asks for a label boundary in front of the domain.
HasSuffix(h, dom) ==
    Len(h) > Len(dom) /\ SubSeq(h, Len(h) - Len(dom) + 1, Len(h)) = dom
isValidAppleURL(h) ==
    HasSuffix(h, <<"apple", "com">>) \/ HasSuffix(h, <<"mzstatic", "com">>)

\* The urls of a request, as their hosts: n urls, the i-th on host h and the
\* others on the artwork CDN.
UrlHosts(n, i, h) == [j \in 1..n |-> IF j = i THEN h ELSE ArtHost]
\* The hosts that belong to the allow-listed domain suffix set.
InSuffixSet(h) ==
    \E pre \in 1..Len(h) - 2 :
        SubSeq(h, pre + 1, Len(h)) \in {<<"apple", "com">>, <<"mzstatic", "com">>}
\* whether every url of a list is on an allow-listed host
HostsOf(urls) == IF \A j \in 1..Len(urls) : InSuffixSet(urls[j]) THEN "in" ELSE "out"
\* A request as it arrives: what it carried is kept for the record.
Carried(q, r, urls) == [q EXCEPT ![r].n = Len(urls), ![r].host = HostsOf(urls)]

\* the first stage of a generation run
FirstStage(d, c) ==
    IF c = "clip" THEN (IF d = "gin" THEN "select" ELSE "ffmpeg") ELSE "download"
\* where a run hands over its result: resultChan <- err, or the job's return
LastStage(d, c) == IF Queued(d, c) THEN "end" ELSE "send"

Spawn(r, d, c) == [task EXCEPT ![r] = [NoTask EXCEPT !.pc = FirstStage(d, c)]]

Did(r, w) == [did EXCEPT ![r] = @ \cup w]

\* A handler that answers 202 whatever the endpoint (used to test C9).
TimeoutAlwaysAccepted(d, c) == 202

\* What the handler answers when the timer fires first. The url of a response
\* is modelled by the file name after the key: "" when the handler sends the
\* key without an extension, "-" when the body has no url.
TimeoutStatus(d, c) == IF d = "gin" /\ c = "clip" THEN 500 ELSE 202
TimeoutUrl(d, c) ==
    IF d = "gin" /\ c = "clip" THEN "-"
    ELSE IF d = "gin" /\ c = "icloud" THEN ""
    ELSE FinalName(c, "jpg")

\* processQueue.add / taskClient.Enqueue: the job is stored for the workers.
\* The payload is json.Marshal(Create...Payload{ImageURLs, Key, JobID}) or
\* {url, key, jobId}.
Payload(c, k, urls) ==
    [st |-> "queued", tries |-> 0, cls |-> c, key |-> k, n |-> Len(urls),
     host |-> HostsOf(urls), decodes |-> TRUE]
\* A client that stores a job without its payload (used to test C27).
EnqueueEmpty(r, c, k, urls) == [job EXCEPT ![r] = [NoJob EXCEPT !.st = "queued"]]
Enqueue(r, c, k, urls) == [job EXCEPT ![r] = Payload(c, k, urls)]

\* A cache miss in a handler: the Go handlers start a goroutine and wait in a
\* select; the part_002 handlers enqueue and answer 202 at once; the Node
\* handlers add the job and wait for job.finished(). Enqueueing can fail.
Miss(r, d, c, k, urls, enqOk) ==
    IF ~Queued(d, c)
    THEN /\ req' = Carried(Wait(r, c, k), r, urls)
         /\ task' = Spawn(r, d, c)
         /\ UNCHANGED <<job, did>>
    ELSE IF ~enqOk
    THEN /\ req' = Carried(Respond(r, c, k, 500, "queuefail", "-"), r, urls)
         /\ UNCHANGED <<task, job, did>>
    ELSE /\ job' = Enqueue(r, c, k, urls)
         /\ did' = Did(r, {"enqueue"})
         /\ req' = Carried(IF d = "asynq"
                           THEN Respond(r, c, k, 202, "processing", FinalName(c, "jpg"))
                           ELSE Wait(r, c, k), r, urls)
         /\ UNCHANGED task

\* A cache hit: 200 with the key and the url of the file found.
Hit(r, c, k, urls, name) ==
    /\ req' = Carried(Respond(r, c, k, 200, "exists", name), r, urls)
    /\ UNCHANGED <<task, job, did>>

\* A validation failure: 400 and nothing else.
Reject(r, c, k, urls) ==
    /\ req' = Carried(Respond(r, c, k, 400, "invalid", "-"), r, urls)
    /\ UNCHANGED <<task, job, did>>

\* The url lists a client can send for a class: one url (or none) for a clip
\* or a resized copy, up to MaxUrls for a square.
OneUrl == {UrlHosts(n, 1, h) : n \in 0..1, h \in Hosts}
SomeUrls == {UrlHosts(n, i, h) : n \in 0..MaxUrls, i \in 1..MaxUrls, h \in Hosts}
UrlLists(c) == IF c = "square" THEN SomeUrls ELSE OneUrl

\* How many urls a handler accepts: binding:"required,min=2,max=4" and
\* imageUrls.length < 2 || imageUrls.length > 4 for a square, a non-empty url
\* otherwise.
Counts(c) == IF c = "square" THEN 2..4 ELSE {1}

\* for _, url := range request.ImageURLs { if err := isValidAppleURL(url) ...
AllValid(urls) == \A j \in 1..Len(urls) : isValidAppleURL(urls[j])

\* A handler that does not look at the number of urls (used to test C18).
BindsAnyCount(c, urls) == TRUE

\* ShouldBindJSON with its binding tags, or the handler's own test
Binds(c, urls) == Len(urls) \in Counts(c)

\* The Go handlers: validate, derive the key, check the store, then hit or miss.
GoHandler(r, c, k, urls, enqOk) ==
    /\ MayArrive(r) /\ NextKey(c, k)
    /\ Serves(deploy, c)
    /\ IF ~Binds(c, urls) \/ ~AllValid(urls)
       THEN Reject(r, c, k, urls)
       ELSE IF CacheCheck(deploy, c, k) # ""
       THEN Hit(r, c, k, urls, CacheCheck(deploy, c, k))
       ELSE Miss(r, deploy, c, k, urls, enqOk)
    /\ UNCHANGED <<selection, derivation, decoding, deploy, files, inode>>

\* GET /artwork/generate (Go)
generateArtwork(r) ==
    /\ deploy # "bull"
    /\ \E k \in Keys, urls \in UrlLists("clip") : GoHandler(r, "clip", k, urls, TRUE)

\* POST /artwork/artist-square (Go)
generateArtistSquare(r) ==
    /\ deploy # "bull"
    /\ \E k \in Keys, urls \in UrlLists("square"), enqOk \in BOOLEAN :
          /\ (~Queued(deploy, "square") => enqOk)
          /\ GoHandler(r, "square", k, urls, enqOk)

\* POST /artwork/icloud (Go)
generateICloudArt(r) ==
    /\ deploy # "bull"
    /\ \E k \in Keys, urls \in UrlLists("icloud"), enqOk \in BOOLEAN :
          /\ (~Queued(deploy, "icloud") => enqOk)
          /\ GoHandler(r, "icloud", k, urls, enqOk)

\* app.get('/artwork/generate') (Node): the url is checked and then fetched
\* before the key is derived and the cache is looked at.
nodeGenerate(r) ==
    /\ deploy = "bull"
    /\ MayArrive(r)
    /\ \E k \in Keys, urls \in UrlLists("clip"), fetchOk \in BOOLEAN,
          enqOk \in BOOLEAN :
          /\ NextKey("clip", k)
          /\ IF ~Binds("clip", urls) \/ \E j \in 1..Len(urls) : urls[j] # MvodHost
               THEN Reject(r, "clip", k, urls)
             ELSE IF ~fetchOk
               THEN /\ req' = Carried(Respond(r, "clip", k, 400, "fetchfail", "-"), r, urls)
                    /\ did' = Did(r, {"fetch"})
                    /\ UNCHANGED <<task, job>>
             ELSE IF CacheCheck(deploy, "clip", k) # ""
               THEN /\ req' = Carried(Respond(r, "clip", k, 200, "exists", "gif"), r, urls)
                    /\ did' = Did(r, {"fetch"})
                    /\ UNCHANGED <<task, job>>
             ELSE IF ~enqOk
               THEN /\ req' = Carried(Respond(r, "clip", k, 500, "queuefail", "-"), r, urls)
                    /\ did' = Did(r, {"fetch"})
                    /\ UNCHANGED <<task, job>>
             ELSE /\ job' = Enqueue(r, "clip", k, urls)
                  /\ did' = Did(r, {"fetch", "enqueue"})
                  /\ req' = Carried(Wait(r, "clip", k), r, urls)
                  /\ UNCHANGED task
    /\ UNCHANGED <<selection, derivation, decoding, deploy, files, inode>>

\* app.post('/artwork/artist-square') (Node): 2..4 urls, no domain check.
nodeArtistSquare(r) ==
    /\ deploy = "bull"
    /\ MayArrive(r)
    /\ \E k \in Keys, urls \in UrlLists("square"), enqOk \in BOOLEAN :
          /\ NextKey("square", k)
          /\ IF ~Binds("square", urls)
               THEN Reject(r, "square", k, urls)
             ELSE IF CacheCheck(deploy, "square", k) # ""
               THEN Hit(r, "square", k, urls, "jpg")
             ELSE Miss(r, deploy, "square", k, urls, enqOk)
    /\ UNCHANGED <<selection, derivation, decoding, deploy, files, inode>>

\* ------------------------------------------------------- generation runs
Cls(r) == req[r].cls
Key(r) == req[r].key
At(r, pc) == task[r].pc = pc
Fail(r, pc) == [task EXCEPT ![r].pc = pc, ![r].err = TRUE]
Goto(r, pc) == [task EXCEPT ![r].pc = pc]
GoClip(r) == Cls(r) = "clip" /\ deploy # "bull"

\* getHighQualityStreamURL as generateArtworkAsync uses it: the manifest is
\* fetched and a rendition is found, or the run fails.
SelectStream(r) ==
    /\ At(r, "select")
    /\ did' = Did(r, {"fetch"})
    /\ \E ok \in BOOLEAN :
          task' = IF ok THEN Goto(r, "ffmpeg") ELSE Fail(r, "cleanup")
    /\ UNCHANGED <<selection, derivation, decoding, deploy, files, inode, req, job>>

\* ffmpeg starts: it fails before it creates its output, or it opens the
\* output path, overwriting (-y) what is there.
FfmpegOpen(r) ==
    /\ At(r, "ffmpeg")
    /\ \E ok \in BOOLEAN :
          IF ok
          THEN LET p == Target(deploy, "clip", Key(r), "gif") IN
               /\ files' = FilesOpen(p, r)
               /\ inode' = InodeOpen(p, r)
               /\ task' = [task EXCEPT ![r].pc = "write", ![r].ino = OpenIno(p, r)]
               /\ did' = Did(r, {"fetch", "transform", "write"})
          ELSE /\ task' = Fail(r, IF GoClip(r) THEN "cleanup" ELSE "end")
               /\ did' = Did(r, {"fetch"})
               /\ UNCHANGED <<files, inode>>
    /\ UNCHANGED <<selection, derivation, decoding, deploy, req, job>>

\* ffmpeg writes frames to the file it holds open
FfmpegWrite(r) ==
    /\ At(r, "write") /\ Cls(r) = "clip"
    /\ inode' = InodeWrite(task[r].ino)
    /\ task' = Goto(r, "close")
    /\ UNCHANGED <<selection, derivation, decoding, deploy, files, req, job, did>>

\* ffmpeg exits: with status 0 after the last frame (or after writing nothing
\* at all), or with an error, leaving what it wrote so far.
FfmpegExit(r) ==
    /\ task[r].pc \in {"write", "close"} /\ Cls(r) = "clip"
    /\ \E ok \in BOOLEAN :
          LET next == IF GoClip(r) THEN (IF ok THEN "stat" ELSE "cleanup") ELSE "end"
              t == [task EXCEPT ![r].pc = next, ![r].err = ~ok]
              n == IF ok /\ At(r, "close")
                   THEN InodeFinish(task[r].ino, r) ELSE inode
          IN /\ task' = t
             /\ inode' = Collect(files, n, t)
    /\ UNCHANGED <<selection, derivation, decoding, deploy, files, req, job, did>>

\* if fi, err := os.Stat(tempGifPath); err != nil || fi.Size() == 0
StatTemp(r) ==
    /\ At(r, "stat")
    /\ task' = IF Content(TempPath(Key(r))) \in {"none", "empty"}
               THEN Fail(r, "cleanup") ELSE Goto(r, "rename")
    /\ UNCHANGED <<selection, derivation, decoding, deploy, files, inode, req, job, did>>

\* os.Rename(tempGifPath, gifPath): atomically replaces the final path
RenameFiles(k) ==
    [files EXCEPT ![<<"clip", k, "gif">>] = files[TempPath(k)], ![TempPath(k)] = 0]

Rename(r) ==
    /\ At(r, "rename")
    /\ \E ok \in BOOLEAN :
          IF ok /\ Exists(TempPath(Key(r)))
          THEN /\ files' = RenameFiles(Key(r))
               /\ task' = Goto(r, "cleanup")
               /\ inode' = Collect(files', inode, task')
          ELSE /\ task' = Fail(r, "cleanup")
               /\ UNCHANGED <<files, inode>>
    /\ UNCHANGED <<selection, derivation, decoding, deploy, req, job, did>>

\* A deferred function that leaves the temporary file where it is (used to
\* test C28).
CleanupKeeps(r) ==
    /\ At(r, "cleanup")
    /\ task' = Goto(r, "send")
    /\ UNCHANGED <<selection, derivation, decoding, deploy, files, inode, req, job, did>>

\* the deferred function of generateArtworkAsync: remove the temporary file
\* if there is one, then the goroutine goes on to resultChan <- err
Cleanup(r) ==
    /\ At(r, "cleanup")
    /\ files' = [files EXCEPT ![TempPath(Key(r))] = 0]
    /\ task' = Goto(r, "send")
    /\ inode' = Collect(files', inode, task')
    /\ UNCHANGED <<selection, derivation, decoding, deploy, req, job, did>>

\* A composite that accepts any number of images (used to test C19).
createArtistSquareAnyCount(n) == "image"

\* size := 500
Size == 500
\* image.Rect(x0, y0, x1, y1): the pixels x0 <= x < x1, y0 <= y < y1
Rect(x0, y0, x1, y1) == [x0 |-> x0, y0 |-> y0, x1 |-> x1, y1 |-> y1]

\* A layout that puts the first of 3 images into the bottom band (used to
\* test C26).
CellsFirstAtBottom(n) ==
    IF n = 2 THEN <<Rect(0, 0, Size \div 2, Size), Rect(Size \div 2, 0, Size, Size)>>
    ELSE IF n = 3
    THEN <<Rect(0, Size \div 2, Size, Size),
           Rect(0, 0, Size \div 2, Size \div 2),
           Rect(Size \div 2, 0, Size, Size \div 2)>>
    ELSE IF n = 4
    THEN <<Rect(0, 0, Size \div 2, Size \div 2),
           Rect(Size \div 2, 0, Size, Size \div 2),
           Rect(0, Size \div 2, Size \div 2, Size),
           Rect(Size \div 2, Size \div 2, Size, Size)>>
    ELSE <<>>

\* The rectangles createArtistSquare's switch draws images[0], images[1], ...
\* into; no rectangle for a number of images without a case.
Cells(n) ==
    IF n = 2 THEN <<Rect(0, 0, Size \div 2, Size), Rect(Size \div 2, 0, Size, Size)>>
    ELSE IF n = 3
    THEN <<Rect(0, 0, Size, Size \div 2),
           Rect(0, Size \div 2, Size \div 2, Size),
           Rect(Size \div 2, Size \div 2, Size, Size)>>
    ELSE IF n = 4
    THEN <<Rect(0, 0, Size \div 2, Size \div 2),
           Rect(Size \div 2, 0, Size, Size \div 2),
           Rect(0, Size \div 2, Size \div 2, Size),
           Rect(Size \div 2, Size \div 2, Size, Size)>>
    ELSE <<>>

\* createArtistSquare's switch on len(images): 2, 3 and 4 images have a
\* layout, any other number is the error "unsupported number of images".
createArtistSquare(n) == IF Cells(n) # <<>> THEN "image" ELSE "unsupported"

\* What a run of class c over n urls composes in memory once its images are
\* downloaded: createICloudArt cannot fail.
Compose(c, n) == IF c = "square" THEN createArtistSquare(n) ELSE "image"

\* downloadImages / downloadImage and createArtistSquare / createICloudArt:
\* the images are fetched, decoded and composed in memory, or the run fails.
\* With no url there is nothing to fetch and nothing that can fail to
\* download. Only utils.go's downloadImage reports a format; task.go always
\* saves jpg.
Download(r) ==
    /\ At(r, "download")
    /\ \E ok \in BOOLEAN, fmt \in Formats :
          /\ (Cls(r) = "icloud" /\ deploy = "gin" /\ ok) \/ fmt = "jpg"
          /\ req[r].n = 0 => ok
          /\ task' = IF ok /\ Compose(Cls(r), req[r].n) = "image"
                     THEN [task EXCEPT ![r].pc = "create", ![r].fmt = fmt]
                     ELSE Fail(r, LastStage(deploy, Cls(r)))
          /\ did' = Did(r, (IF req[r].n = 0 THEN {} ELSE {"fetch"})
                           \cup (IF ok /\ Compose(Cls(r), req[r].n) = "image"
                                 THEN {"transform"} ELSE {}))
    /\ UNCHANGED <<selection, derivation, decoding, deploy, files, inode, req, job>>

\* saveImage / saveJPEG / fs.writeFile: os.Create(filePath) truncates or
\* creates the final path; saveImage then refuses a format it cannot encode.
Create(r) ==
    /\ At(r, "create")
    /\ \E ok \in BOOLEAN :
          IF ok
          THEN LET p == Target(deploy, Cls(r), Key(r), task[r].fmt)
                   t == [task EXCEPT ![r].ino = OpenIno(p, r)]
               IN /\ files' = FilesOpen(p, r)
                  /\ task' = IF task[r].fmt \in Encodable
                             THEN [t EXCEPT ![r].pc = "write"]
                             ELSE [t EXCEPT ![r].pc = LastStage(deploy, Cls(r)),
                                            ![r].err = TRUE]
                  /\ inode' = InodeOpen(p, r)
                  /\ did' = Did(r, {"write"})
          ELSE /\ task' = Fail(r, LastStage(deploy, Cls(r)))
               /\ UNCHANGED <<files, inode, did>>
    /\ UNCHANGED <<selection, derivation, decoding, deploy, req, job>>

\* jpeg.Encode / png.Encode / gif.Encode writing to the open file
EncodeWrite(r) ==
    /\ At(r, "write") /\ Cls(r) # "clip"
    /\ inode' = InodeWrite(task[r].ino)
    /\ task' = Goto(r, "close")
    /\ UNCHANGED <<selection, derivation, decoding, deploy, files, req, job, did>>

\* the encoder returns: nil after the last byte, or an error (a failed
\* write) leaving in the file what it wrote so far
EncodeReturn(r) ==
    /\ task[r].pc \in {"write", "close"} /\ Cls(r) # "clip"
    /\ \E ok \in BOOLEAN :
          /\ ok => At(r, "close")
          /\ LET t == [task EXCEPT ![r].pc = LastStage(deploy, Cls(r)), ![r].err = ~ok]
                 n == IF ok THEN InodeFinish(task[r].ino, r) ELSE inode
             IN /\ task' = t
                /\ inode' = Collect(files, n, t)
    /\ UNCHANGED <<selection, derivation, decoding, deploy, files, req, job, did>>

\* --------------------------------------------------- the handler's select
\* A handler that does not look at the error it received (used to test C8).
ResultIgnoresError(r, d, c, k, err) ==
    Respond(r, c, k, 200, "generated", FinalName(c, "jpg"))

\* The answer to a result received from resultChan.
ResultResponse(r, d, c, k, err) ==
    IF err THEN Respond(r, c, k, 500, "failed", "-")
    ELSE IF c = "icloud" /\ d = "gin"
    THEN (IF Probe(k) = "" THEN Respond(r, c, k, 500, "notfound", "-")
          ELSE Respond(r, c, k, 200, "generated", Probe(k)))
    ELSE Respond(r, c, k, 200, "generated", FinalName(c, "jpg"))

\* case err := <-resultChan: the goroutine's send and the handler's receive
\* happen together (the channel is unbuffered)
Receive(r) ==
    /\ req[r].st = "waiting" /\ At(r, "send")
    /\ req' = ResultResponse(r, deploy, Cls(r), Key(r), task[r].err)
    /\ task' = Goto(r, "done")
    /\ UNCHANGED <<selection, derivation, decoding, deploy, files, inode, job, did>>

\* A timeout that also abandons the generation run (used to test C4).
TimeoutCancels(r, d, c, k) ==
    /\ req' = Respond(r, c, k, TimeoutStatus(d, c),
                      IF TimeoutStatus(d, c) = 202 THEN "processing" ELSE "timeout",
                      TimeoutUrl(d, c))
    /\ task' = [task EXCEPT ![r] = NoTask]
    /\ UNCHANGED <<files, inode>>

\* case <-time.After(30 * time.Second): the handler answers and returns;
\* nothing is told to the goroutine
TimeoutEffect(r, d, c, k) ==
    /\ req' = Respond(r, c, k, TimeoutStatus(d, c),
                      IF TimeoutStatus(d, c) = 202 THEN "processing" ELSE "timeout",
                      TimeoutUrl(d, c))
    /\ UNCHANGED <<task, files, inode>>

Timeout(r) ==
    /\ req[r].st = "waiting" /\ ~Queued(deploy, Cls(r))
    /\ TimeoutEffect(r, deploy, Cls(r), Key(r))
    /\ UNCHANGED <<selection, derivation, decoding, deploy, job, did>>

\* ------------------------------------------------------------ work queues
Concurrency(d) == IF d = "asynq" THEN AsynqConcurrency ELSE BullConcurrency
\* the jobs that occupy the workers a job of class c competes for: asynq has
\* one pool of workers for all task types, bull one pool per queue
Active(d, c) ==
    {r \in Reqs : job[r].st = "active" /\ (d = "bull" => Cls(r) = c)}
\* retries left for a failed job: asynq retries, bull's default is one attempt
MayRetry(d, tries) == d = "asynq" /\ tries < MaxRetry

\* A worker that starts the pipeline without looking at the store (used to
\* test C10).
JobNoCheck(r, d, c, k) ==
    /\ job' = [job EXCEPT ![r].st = "active"]
    /\ task' = Spawn(r, d, c)

\* A worker that does not decode the payload before it uses it (used to test
\* C38).
JobCheckUndecoded(r, d, c, k) ==
    IF CacheCheck(d, c, k) # ""
    THEN /\ job' = [job EXCEPT ![r].st = "done"]
         /\ UNCHANGED task
    ELSE /\ job' = [job EXCEPT ![r].st = "active"]
         /\ task' = Spawn(r, d, c)

\* What a worker does first with a job: the payload is decoded, and a job
\* whose payload json.Unmarshal refuses returns an error wrapping
\* asynq.SkipRetry, which archives it; then the store is looked at, and a job
\* whose artifact is there returns at once.
JobCheck(r, d, c, k) ==
    IF ~job[r].decodes
    THEN /\ job' = [job EXCEPT ![r].st = "dead"]
         /\ UNCHANGED task
    ELSE IF CacheCheck(d, c, k) # ""
    THEN /\ job' = [job EXCEPT ![r].st = "done"]
         /\ UNCHANGED task
    ELSE /\ job' = [job EXCEPT ![r].st = "active"]
         /\ task' = Spawn(r, d, c)

\* HandleCreateArtistSquareTask / HandleCreateICloudArtTask /
\* processQueue.process / artistSquareQueue.process: a free worker takes a job
JobStart(r) ==
    /\ job[r].st = "queued"
    /\ Cardinality(Active(deploy, Cls(r))) < Concurrency(deploy)
    /\ JobCheck(r, deploy, Cls(r), Key(r))
    /\ UNCHANGED <<selection, derivation, decoding, deploy, files, inode, req, did>>

\* A queue that puts a failed job back without counting the attempt (used to
\* test C12).
JobReturnNoLimit(r) ==
    /\ At(r, "end") /\ job[r].st = "active"
    /\ job' = IF ~task[r].err THEN [job EXCEPT ![r].st = "done"]
              ELSE [job EXCEPT ![r].st = "queued"]
    /\ task' = [task EXCEPT ![r] = NoTask]
    /\ UNCHANGED <<selection, derivation, decoding, deploy, files, inode, req, did>>

\* the job handler returns: nil completes the job, an error has it retried
\* or, with no retry left, archived
JobReturn(r) ==
    /\ At(r, "end") /\ job[r].st = "active"
    /\ job' = IF ~task[r].err THEN [job EXCEPT ![r].st = "done"]
              ELSE IF MayRetry(deploy, job[r].tries)
              THEN [job EXCEPT ![r].st = "queued", ![r].tries = @ + 1]
              ELSE [job EXCEPT ![r].st = "dead"]
    /\ task' = [task EXCEPT ![r] = NoTask]
    /\ UNCHANGED <<selection, derivation, decoding, deploy, files, inode, req, did>>

\* job.finished().then(...).catch(...) of the Node handlers
JobFinished(r) ==
    /\ req[r].st = "waiting" /\ deploy = "bull"
    /\ job[r].st \in {"done", "dead"}
    /\ req' = IF job[r].st = "done"
              THEN Respond(r, Cls(r), Key(r), 202, "processing", FinalName(Cls(r), "jpg"))
              ELSE Respond(r, Cls(r), Key(r), 500, "failed", "-")
    /\ UNCHANGED <<selection, derivation, decoding, deploy, files, inode, task, job, did>>

\* ------------------------------------------------------------- retrieval
\* The retrieval handlers read the store and change nothing: each is the
\* answer [status, body] it gives in the current state, body being the
\* content of the file it sends.
Serve(c, k, name) ==
    IF name # "" /\ <<c, k, name>> \in Paths /\ Exists(<<c, k, name>>)
    THEN [status |-> 200, body |-> Content(<<c, k, name>>)]
    ELSE [status |-> 404, body |-> "-"]

\* GET /artwork/:key for the parameter "{k}.gif" or "{k}_temp.gif": the
\* handler trims ".gif" and sends {trimmed}.gif
getArtwork(k, asked) == Serve("clip", k, asked)

\* GET /artwork/artist-square/:key for the parameter "{k}.jpg"
getArtistSquare(k) == Serve("square", k, "jpg")

\* GET /artwork/icloud/:key for the parameter "{k}" (asked = "") or
\* "{k}.{asked}". utils-era getICloudArt probes {param}.{format}; the older
\* one trims ".jpg" and sends {trimmed}.jpg.
ICloudName(d, k, asked) ==
    IF d = "gin" THEN (IF asked = "" THEN Probe(k) ELSE "")
    ELSE (IF asked \in {"", "jpg"} THEN "jpg" ELSE "")

getICloudArt(k, asked) == Serve("icloud", k, ICloudName(deploy, k, asked))

\* --------------------------------------------------------- key derivation
\* A url is a string, a non-empty sequence of characters; two characters are
\* enough to tell the order and the concatenation of urls.
Chars == {1, 2}
Strings == UNION {[1..n -> Chars] : n \in 1..MaxUrlLen}
\* the url lists generateArtistSquareKey is called on
KeyInputs == UNION {[1..n -> Strings] : n \in 2..MaxKeyUrls}

\* md5.Sum, taken as collision-free: a digest stands for the bytes it was
\* computed from.
md5(bytes) == [of |-> bytes]
\* no key derived yet
NoKey == [of |-> <<>>]

\* s < t for strings: byte-wise lexicographic order
RECURSIVE Before(_, _)
Before(s, t) ==
    IF Len(t) = 0 THEN FALSE
    ELSE IF Len(s) = 0 THEN TRUE
    ELSE IF Head(s) # Head(t) THEN Head(s) < Head(t)
    ELSE Before(Tail(s), Tail(t))
RECURSIVE InsertSorted(_, _)
InsertSorted(s, list) ==
    IF Len(list) = 0 THEN <<s>>
    ELSE IF Before(Head(list), s) THEN <<Head(list)>> \o InsertSorted(s, Tail(list))
    ELSE <<s>> \o list
\* sort.Strings(imageUrls): the slice in increasing order
RECURSIVE SortStrings(_)
SortStrings(list) ==
    IF Len(list) = 0 THEN <<>> ELSE InsertSorted(Head(list), SortStrings(Tail(list)))
\* strings.Join(imageUrls, "")
RECURSIVE Join(_)
Join(list) == IF Len(list) = 0 THEN <<>> ELSE Head(list) \o Join(Tail(list))

\* generateKey(url)
generateKey(url) == md5(url)

\* A key derivation that does not sort (used to test C23).
generateArtistSquareKeyUnsorted(urls) == [key |-> md5(Join(urls)), imageUrls |-> urls]

\* generateArtistSquareKey(imageUrls): the key it returns and the caller's
\* slice as the call leaves it, sort.Strings sorting the slice in place.
generateArtistSquareKey(urls) ==
    [key |-> md5(Join(SortStrings(urls))), imageUrls |-> SortStrings(urls)]

\* ------------------------------------------------------- stream selection
\* A master playlist is a sequence of lines. A metadata line
\* (#EXT-X-STREAM-INF:) carries its attribute list; a url line is absolute
\* (it starts with "http") or relative, and is identified by the number of
\* the rendition it stands for. base tells whether a url has been resolved
\* against the playlist's own url.
MinWidth == 450
CodecLists ==
    {<<"avc1">>, <<"hvc1">>, <<"avc1", "mp4a">>, <<"mp4a", "avc1">>, <<"avc1", "hvc1">>}
Widths == {320, 480, 720}
\* a rendition: CODECS="...", RESOLUTION=WxW, and its url line
Renditions == [codecs : CodecLists, width : Widths, abs : BOOLEAN]

\* the empty string
NoUrl == [tag |-> "url", abs |-> FALSE, id |-> 0, base |-> FALSE]
\* nothing returned yet
NoStream == [err |-> "-", url |-> NoUrl]

InfLine(rd) ==
    [tag |-> "inf",
     attrs |-> << <<"CODECS", rd.codecs>>, <<"RESOLUTION", <<rd.width, rd.width>> >> >>]
UrlLine(rd, i) == [tag |-> "url", abs |-> rd.abs, id |-> i, base |-> FALSE]
\* the playlist that announces each rendition by a metadata line followed by
\* its url line
Playlist(rds) ==
    [j \in 1..2 * Len(rds) |->
        IF j % 2 = 1 THEN InfLine(rds[(j + 1) \div 2]) ELSE UrlLine(rds[j \div 2], j \div 2)]
Playlists ==
    {Playlist(rds) : rds \in UNION {[1..n -> Renditions] : n \in 0..MaxRenditions}}

\* a text that is not a decimal number, where a number is expected
NotANumber == -1
\* n, _ := strconv.Atoi(value): the number, or 0 with the error dropped
Atoi(v) == IF v = NotANumber THEN 0 ELSE v

\* The ways an attribute of a metadata line can be malformed: a part without
\* "=" in front of, between or behind the attributes; a RESOLUTION without
\* "x"; a RESOLUTION whose width is not a number; a BANDWIDTH that is not a
\* number. "-" is a line whose attributes are all well-formed.
Malformations == {"-", "junk0", "junk1", "junk3", "nox", "nanw", "nanb"}
BadRenditions ==
    [codecs : {<<"avc1">>, <<"hvc1">>, <<"avc1", "mp4a">>}, width : Widths, abs : {TRUE},
     bad : Malformations]
\* the attribute list of a metadata line with one malformation
BadAttrs(rd) ==
    LET J == <<"junk">>
        C == <<"CODECS", rd.codecs>>
        B == <<"BANDWIDTH", IF rd.bad = "nanb" THEN NotANumber ELSE 1000 * rd.width>>
        R == <<"RESOLUTION", IF rd.bad = "nox" THEN <<rd.width>>
                             ELSE IF rd.bad = "nanw" THEN <<NotANumber, rd.width>>
                             ELSE <<rd.width, rd.width>> >>
    IN IF rd.bad = "junk0" THEN <<J, C, B, R>>
       ELSE IF rd.bad = "junk1" THEN <<C, J, B, R>>
       ELSE IF rd.bad = "junk3" THEN <<C, B, R, J>>
       ELSE <<C, B, R>>
BadPlaylist(rds) ==
    [j \in 1..2 * Len(rds) |->
        IF j % 2 = 1 THEN [tag |-> "inf", attrs |-> BadAttrs(rds[(j + 1) \div 2])]
        ELSE UrlLine(rds[j \div 2], j \div 2)]
BadPlaylists ==
    {BadPlaylist(rds) : rds \in UNION {[1..n -> BadRenditions] : n \in 0..MaxBadRenditions}}

\* strings.Split(line[18:], ","): the commas inside a quoted codec list split
\* it too, so CODECS="a,b" becomes the part CODECS="a and the part b". A
\* part is <<key, value>> or, without "=", <<text>>; the value of CODECS is
\* kept as the list of the codec tags in it, quotes trimmed.
PartsOf(a) ==
    IF a[1] = "CODECS"
    THEN [i \in 1..Len(a[2]) |-> IF i = 1 THEN <<"CODECS", <<a[2][1]>> >> ELSE <<a[2][i]>>]
    ELSE <<a>>
RECURSIVE Split(_)
Split(attrs) ==
    IF Len(attrs) = 0 THEN <<>> ELSE PartsOf(Head(attrs)) \o Split(Tail(attrs))

NoInfo == [codecs |-> <<>>, width |-> 0, height |-> 0, bandwidth |-> 0]
\* A loop body that forgets what it has parsed when it meets a part without
\* "=" (used to test C30).
ParsePartDiscards(info, part) ==
    IF Len(part) # 2 THEN NoInfo
    ELSE IF part[1] = "CODECS" THEN [info EXCEPT !.codecs = part[2]]
    ELSE IF part[1] = "BANDWIDTH" THEN [info EXCEPT !.bandwidth = Atoi(part[2])]
    ELSE IF part[1] = "RESOLUTION" /\ Len(part[2]) = 2
    THEN [info EXCEPT !.width = Atoi(part[2][1]), !.height = Atoi(part[2][2])]
    ELSE info

\* the body of parseStreamInfo's loop
ParsePart(info, part) ==
    IF Len(part) # 2 THEN info
    ELSE IF part[1] = "CODECS" THEN [info EXCEPT !.codecs = part[2]]
    ELSE IF part[1] = "BANDWIDTH" THEN [info EXCEPT !.bandwidth = Atoi(part[2])]
    ELSE IF part[1] = "RESOLUTION" /\ Len(part[2]) = 2
    THEN [info EXCEPT !.width = Atoi(part[2][1]), !.height = Atoi(part[2][2])]
    ELSE info
RECURSIVE ParseParts(_, _)
ParseParts(info, parts) ==
    IF Len(parts) = 0 THEN info
    ELSE ParseParts(ParsePart(info, Head(parts)), Tail(parts))
parseStreamInfo(line) == ParseParts(NoInfo, Split(line.attrs))

\* strings.Contains(codecs, tag)
Contains(codecs, tag) == \E i \in 1..Len(codecs) : codecs[i] = tag
isValidStream(info) ==
    ~Contains(info.codecs, "hvc1") /\ Contains(info.codecs, "avc1")
    /\ info.width >= MinWidth

\* baseURL.ResolveReference(relativeURL): an absolute reference is returned
\* as it is
resolveURL(ref) == IF ref.abs THEN ref ELSE [ref EXCEPT !.base = TRUE]

\* the body of getHighQualityStreamURL's scanner loop
ScanLine(sc, line) ==
    IF line.tag = "inf"
    THEN LET info == parseStreamInfo(line) IN
         IF isValidStream(info) /\ info.width > sc.maxWidth
         THEN [sc EXCEPT !.maxWidth = info.width, !.streamURL = NoUrl]
         ELSE sc
    ELSE IF line.abs /\ sc.streamURL = NoUrl
    THEN [sc EXCEPT !.streamURL = line,
                    !.selectedStreamURL = IF sc.maxWidth > 0 THEN line ELSE @]
    ELSE sc
RECURSIVE Scan(_, _)
Scan(sc, lines) ==
    IF Len(lines) = 0 THEN sc ELSE Scan(ScanLine(sc, Head(lines)), Tail(lines))

getHighQualityStreamURL(lines) ==
    LET sc == Scan([selectedStreamURL |-> NoUrl, maxWidth |-> 0, streamURL |-> NoUrl],
                   lines)
    IN IF sc.selectedStreamURL = NoUrl
       THEN [err |-> "no suitable stream found", url |-> NoUrl]
       ELSE [err |-> "", url |-> resolveURL(sc.selectedStreamURL)]

\* --------------------------------------------------------- image download
\* What a server holds at an image url: the Content-Type of its GET response
\* ("" when the header is missing, the format it names, or "other"), what a
\* HEAD request says when the header is missing ("fail": the request fails),
\* what the bytes are, the extension of the url's path (path.Ext without the
\* dot), and which of the successive GET requests succeed.
ContentTypes == {"", "jpeg", "png", "gif", "webp", "other"}
Datas == {"jpeg", "png", "gif", "webp", "junk", "empty"}
Exts == {"", "jpg", "png"}
Images ==
    {im \in [ctype : ContentTypes, head : {"fail", "", "png"}, data : Datas, ext : Exts,
              fetch : [1..MaxAttempts + 1 -> BOOLEAN]] :
        im.ctype # "" => im.head = ""}

\* image.Decode: the formats registered by the imports (image/jpeg, image/png,
\* image/gif, golang.org/x/image/webp). A decoder called directly accepts
\* the data image.Decode recognises as its format.
Registered == {"jpeg", "png", "gif", "webp"}
imageDecode(data) == data \in Registered

Result(by, tries, tried, err, format) ==
    [by |-> by, tries |-> tries, tried |-> tried, err |-> err, format |-> format]

\* A loop that has no break: every attempt is made and the last one decides
\* (used to test C39).
GetLoopNoBreak(fetch, i, max) == [tries |-> max, ok |-> fetch[max]]

\* for i := 0; i < maxRetries; i++ { resp, err = http.Get(url); if err == nil
\* { break } ... }: the number of requests made and whether the last one
\* succeeded
RECURSIVE GetLoop(_, _, _)
GetLoop(fetch, i, max) ==
    IF i > max THEN [tries |-> max, ok |-> FALSE]
    ELSE IF fetch[i] THEN [tries |-> i, ok |-> TRUE]
    ELSE GetLoop(fetch, i + 1, max)

\* the switch on the content type and its default branch (part_000): what was
\* consulted, in order, and the outcome
DecodeByType(im, tries) ==
    LET ct == IF im.ctype = "" THEN im.head ELSE im.ctype
        Out(tried, ok, format) ==
            IF ok THEN Result("part_000", tries, tried, "", format)
            ELSE Result("part_000", tries, tried, "failed to decode image", "-")
    IN IF ct = "jpeg" THEN Out(<<"ctype">>, im.data = "jpeg", "jpg")
       ELSE IF ct = "png" THEN Out(<<"ctype">>, im.data = "png", "png")
       ELSE IF ct = "gif" THEN Out(<<"ctype">>, im.data = "gif", "gif")
       ELSE IF ct = "webp" THEN Out(<<"ctype">>, im.data = "webp", "png")
       ELSE IF im.data = "webp" THEN Out(<<"ctype", "webp">>, TRUE, "png")
       ELSE IF im.ext = ""
       THEN Result("part_000", tries, <<"ctype", "webp", "suffix">>,
                   "unknown image format", "-")
       ELSE Out(<<"ctype", "webp", "suffix", "generic">>, imageDecode(im.data), im.ext)

\* downloadImage of part_000
downloadImageByType(im) ==
    LET g == GetLoop(im.fetch, 1, MaxAttempts)
    IN IF ~g.ok THEN Result("part_000", g.tries, <<>>, "failed to download image", "-")
       ELSE IF im.ctype = "" /\ im.head = "fail"
       THEN Result("part_000", g.tries, <<>>, "failed to get content type", "-")
       ELSE IF im.data = "empty"
       THEN Result("part_000", g.tries, <<>>, "downloaded image data is empty", "-")
       ELSE DecodeByType(im, g.tries)

\* downloadImage of utils.go: the resty client retries up to RestyRetryCount
\* times after the first request; image.Decode, and when it fails each decoder
\* of the map (in the map's iteration order, none of which accepts what
\* image.Decode refused).
downloadImage(im) ==
    LET g == GetLoop(im.fetch, 1, RestyRetryCount + 1)
    IN IF ~g.ok THEN Result("utils", g.tries, <<>>, "failed to download image", "-")
       ELSE IF im.data = "empty"
       THEN Result("utils", g.tries, <<>>, "downloaded image data is empty", "-")
       ELSE IF imageDecode(im.data) THEN Result("utils", g.tries, <<"generic">>, "", im.data)
       ELSE Result("utils", g.tries, <<"generic", "decoders">>, "failed to decode image", "-")

\* ----------------------------------------------------------- the service
\* The service starts on empty cache directories: ensureDirectories creates
\* them, and the Node service's cleanCache, which runs once at startup and
\* unlinks the .gif files ffmpeg cannot read, finds nothing to remove.
Init ==
    /\ deploy \in Deploys
    /\ files = [p \in Paths |-> 0]
    /\ inode = [i \in Reqs |-> NoInode]
    /\ req = [r \in Reqs |-> NoReq]
    /\ task = [r \in Reqs |-> NoTask]
    /\ job = [r \in Reqs |-> NoJob]
    /\ did = [r \in Reqs |-> {}]
    /\ manifest = <<>>
    /\ stream = NoStream
    /\ imageUrls = <<>>
    /\ squareKey = NoKey
    /\ image = NoImage
    /\ decoded = NoResult

Next ==
    \/ \E r \in Reqs : generateArtwork(r)
    \/ \E r \in Reqs : generateArtistSquare(r)
    \/ \E r \in Reqs : generateICloudArt(r)
    \/ \E r \in Reqs : nodeGenerate(r)
    \/ \E r \in Reqs : nodeArtistSquare(r)
    \/ \E r \in Reqs : SelectStream(r)
    \/ \E r \in Reqs : FfmpegOpen(r)
    \/ \E r \in Reqs : FfmpegWrite(r)
    \/ \E r \in Reqs : FfmpegExit(r)
    \/ \E r \in Reqs : StatTemp(r)
    \/ \E r \in Reqs : Rename(r)
    \/ \E r \in Reqs : Cleanup(r)
    \/ \E r \in Reqs : Download(r)
    \/ \E r \in Reqs : Create(r)
    \/ \E r \in Reqs : EncodeWrite(r)
    \/ \E r \in Reqs : EncodeReturn(r)
    \/ \E r \in Reqs : Receive(r)
    \/ \E r \in Reqs : Timeout(r)
    \/ \E r \in Reqs : JobStart(r)
    \/ \E r \in Reqs : JobReturn(r)
    \/ \E r \in Reqs : JobFinished(r)

Spec == Init /\ [][Next]_vars

\* ------------------------------------------------------------ vocabulary
\* two requests that name the same artifact
SameKey(r, q) == Arrived(r) /\ Arrived(q) /\ Cls(r) = Cls(q) /\ Key(r) = Key(q)
\* the stages of the transform pipeline, from the first fetch to the last
\* file operation
Stages ==
    {"select", "ffmpeg", "write", "close", "stat", "rename", "cleanup",
     "download", "create"}
Running(r) == task[r].pc \in Stages
\* a run that has handed over (or is about to hand over) an error
Failed(r) == task[r].err /\ task[r].pc \in {"send", "end", "done"}
\* no other request for the artifact of r has touched the store
Alone(r) == \A q \in Reqs : q # r /\ SameKey(q, r) => "write" \notin did[q]
FinalPaths == {p \in Paths : p[3] # TempName}

\* ---------------------------------------------------------------- claims
\* C1: concurrent generate requests for one never-seen key execute the
\* pipeline once: no two generation runs for the same artifact are ever in
\* their pipeline stages at the same time.
C1_OneGenerationPerKey ==
    \A r, q \in Reqs : r # q /\ SameKey(r, q) => ~(Running(r) /\ Running(q))

\* C2: in every reachable state the file at every final path {key}.{ext} is
\* absent or completely written; empty or half-written content is never found
\* under a final name.
C2_FinalAbsentOrWhole ==
    \A p \in FinalPaths : Content(p) \in {"none", "full"}

\* C3: a generation run that has failed, and that is the only one to have
\* touched the store for its key, leaves no file at the final path of its key.
C3_FailedRunLeavesNoFile ==
    \A r \in Reqs :
        Failed(r) /\ Alone(r)
        => \A fmt \in Formats : ~Exists(FinalPath(Cls(r), Key(r), fmt))

\* the answer of the retrieval endpoint of class c to a request for key k
Retrieve(c, k) ==
    IF c = "clip" THEN getArtwork(k, "gif")
    ELSE IF c = "square" THEN getArtistSquare(k)
    ELSE getICloudArt(k, "")
\* a handler whose select ended with the timer: it answered without having
\* received from resultChan
TimedOut(r) ==
    /\ req[r].st = "done" /\ ~Queued(deploy, Cls(r))
    /\ req[r].msg \in {"processing", "timeout"}
\* a step of the generation run of r
RunStep(r) ==
    \/ SelectStream(r) \/ FfmpegOpen(r) \/ FfmpegWrite(r) \/ FfmpegExit(r)
    \/ StatTemp(r) \/ Rename(r) \/ Cleanup(r)
    \/ Download(r) \/ Create(r) \/ EncodeWrite(r) \/ EncodeReturn(r)
\* the artifact of class c and key k is committed: whole at a final path
Committed(c, k) == \E fmt \in Formats : Content(FinalPath(c, k, fmt)) = "full"

\* C4: when the bounded wait of a generate handler expires, only the wait
\* ends: the generation run is still there and can take its next step, and
\* once it has succeeded the retrieval endpoint serves the artifact by key
\* (whole, when no other run wrote to that key), with no further generate
\* request.
C4_TimeoutEndsOnlyTheWait ==
    \A r \in Reqs :
        TimedOut(r) =>
            /\ task[r].pc \in Stages \cup {"send"}
            /\ Running(r) => ENABLED RunStep(r)
            /\ task[r].pc = "send" /\ ~task[r].err
               => /\ Retrieve(Cls(r), Key(r)).status = 200
                  /\ Alone(r) => Retrieve(Cls(r), Key(r)).body = "full"

\* C4 witness: a request that timed out, whose run then succeeded, and whose
\* artifact the retrieval endpoint serves whole.
C4_Witness ==
    \E r \in Reqs :
        /\ TimedOut(r) /\ task[r].pc = "send" /\ ~task[r].err
        /\ Retrieve(Cls(r), Key(r)) = [status |-> 200, body |-> "full"]

\* a generate request r is handled in this step and passes validation
Handled(r) ==
    /\ req[r].st = "new" /\ req'[r].st # "new"
    /\ req'[r].msg # "invalid"
\* the generation for the artifact of class c and key k has failed: every
\* request that started one has seen it end with an error, none is left
GenerationOf(q) == task[q].pc # "none" \/ job[q].st # "none"
GenerationFailed(q) ==
    IF Queued(deploy, Cls(q)) THEN job[q].st = "dead" ELSE Failed(q)
FailedFor(c, k) ==
    /\ \E q \in Reqs : Arrived(q) /\ Cls(q) = c /\ Key(q) = k /\ GenerationOf(q)
    /\ \A q \in Reqs :
           Arrived(q) /\ Cls(q) = c /\ Key(q) = k /\ GenerationOf(q)
           => GenerationFailed(q)

\* C5: a generate request handled while the artifact of its key is committed
\* is a pure cache hit: it answers 200 with the key and a url, and fetches
\* nothing, transforms nothing, enqueues nothing and writes nothing.
C5_PureCacheHit ==
    [][\A r \in Reqs :
          Handled(r) /\ Committed(req'[r].cls, req'[r].key)
          => /\ req'[r].status = 200 /\ req'[r].url # "-"
             /\ did'[r] = {}
             /\ task' = task /\ job' = job /\ files' = files /\ inode' = inode
      ]_vars

\* C6: after the generation for a key has failed, the next generate request
\* for that key gets no cache hit and no remembered error: it starts a
\* generation of its own.
C6_FailureIsForgotten ==
    [][\A r \in Reqs :
          /\ Handled(r) /\ FailedFor(req'[r].cls, req'[r].key)
          /\ req'[r].msg \notin {"fetchfail", "queuefail"}
          => /\ req'[r].status # 200
             /\ task'[r].pc # "none" \/ job'[r].st = "queued"
      ]_vars

\* C7: once the file at a final path is completely written, no step of the
\* service truncates, overwrites, replaces or removes it.
C7_CommittedIsKept ==
    [][\A p \in FinalPaths :
          Content(p) = "full"
          => files'[p] = files[p] /\ inode'[files'[p]].st = "full"
      ]_vars

\* C8: when the generation run hands an error to the waiting handler (the
\* handler receives it from resultChan, or job.finished() rejects), the caller
\* is answered 500, not 200 or 202.
C8_ErrorAnswers500 ==
    \A r \in Reqs :
        /\ task[r].pc = "done" /\ task[r].err => req[r].status = 500
        /\ deploy = "bull" /\ req[r].st = "done" /\ job[r].st = "dead"
           => req[r].status = 500

\* C8 witness: a handler has received an error from its run and answered 500.
C8_Witness ==
    \E r \in Reqs : task[r].pc = "done" /\ task[r].err /\ req[r].status = 500

\* C9 (as stated): whenever the bounded wait of a generate handler expires,
\* the answer is 202 with the key and a url.
C9_TimeoutAnswers202 ==
    \A r \in Reqs :
        TimedOut(r) => req[r].status = 202 /\ req[r].url # "-"

\* C9 (amended): expiry of the bounded wait is answered 202 with the key and
\* a url by the composite-square and resized-copy handlers and by the clip
\* handler of unnamed/part_001 and part_002; the clip handler of
\* server.mjs:725-771 (main.go:252-298) answers 500 with no key and no url.
C9_TimeoutAnswer ==
    \A r \in Reqs :
        TimedOut(r) =>
            IF deploy = "gin" /\ Cls(r) = "clip"
            THEN req[r].status = 500 /\ req[r].url = "-"
            ELSE req[r].status = 202 /\ req[r].key \in Keys /\ req[r].url # "-"

\* C9 witness: a handler whose wait expired has answered 202 with a url
\* while its run goes on.
C9_Witness ==
    \E r \in Reqs :
        TimedOut(r) /\ Running(r) /\ req[r].status = 202 /\ req[r].url # "-"

\* C10: a worker that takes a job looks at the store first; when the artifact
\* of the job's key is there, the job completes at once and fetches nothing,
\* transforms nothing and writes nothing.
C10_JobRechecksStore ==
    [][\A r \in Reqs :
          /\ job[r].st = "queued" /\ job'[r].st # "queued"
          /\ CacheCheck(deploy, Cls(r), Key(r)) # ""
          => /\ job'[r].st = "done"
             /\ task' = task /\ files' = files /\ inode' = inode /\ did' = did
      ]_vars

\* C10 witness: two jobs for one key are done, the artifact is committed, and
\* one of the jobs has neither transformed nor written.
C10_Witness ==
    \E r, q \in Reqs :
        /\ r # q /\ SameKey(r, q)
        /\ job[r].st = "done" /\ job[q].st = "done"
        /\ did[r] \cap {"transform", "write"} = {}
        /\ Committed(Cls(r), Key(r))

\* C11: a queue job whose generation fails is retried while the queue grants
\* retries and is then abandoned; once it is abandoned (and no other request
\* wrote to its key) no file exists at the final path of its key.
C11_AbandonedKeyIsAbsent ==
    \A r \in Reqs :
        job[r].st = "dead"
        => /\ ~MayRetry(deploy, job[r].tries)
           /\ Alone(r)
              => \A fmt \in Formats : ~Exists(FinalPath(Cls(r), Key(r), fmt))

\* The service under fair scheduling: a worker that can take a job takes it,
\* a generation run that can take its next step takes it (the transcoder and
\* the image hosts answer or fail), and a handler that returned is
\* acknowledged by the queue.
FairSpec ==
    /\ Spec
    /\ \A r \in Reqs :
          WF_vars(JobStart(r)) /\ WF_vars(RunStep(r)) /\ WF_vars(JobReturn(r))

\* a queue job that is acknowledged: completed, or failed for good
Acknowledged(r) == job[r].st \in {"done", "dead"}

\* C12: under fair scheduling every enqueued job is eventually acknowledged:
\* it completes or it is failed for good once its retries are used up; no job
\* stays queued, active or in retry for ever.
C12_JobsAreAcknowledged ==
    \A r \in Reqs : (job[r].st = "queued") ~> Acknowledged(r)

\* C12 witness: a job that failed and was retried has been acknowledged.
C12_Witness ==
    \E r \in Reqs : Acknowledged(r) /\ job[r].tries > 0

\* C13: the generation pipelines that run at one time stay within the fixed
\* worker limit: every running pipeline occupies a worker of a pool, and no
\* pool has more jobs active than its concurrency limit.
C13_RunsWithinLimit ==
    /\ \A r \in Reqs : Running(r) => job[r].st = "active"
    /\ \A c \in Classes :
           Cardinality(Active(deploy, c)) <= Concurrency(deploy)

\* C14: no retrieval request is answered with the bytes of a temporary
\* in-progress file: GET /artwork/{k}_temp.gif (or {k}_temp), whose key ends
\* in the temporary suffix, is answered 404.
C14_TempNeverServed ==
    \A k \in Keys : getArtwork(k, TempName).status = 404

\* the answer of the retrieval endpoint of class c to a GET of the url a
\* generate endpoint returned for key k, name being what follows the key
GetUrl(c, k, name) ==
    IF c = "clip" THEN getArtwork(k, name)
    ELSE IF c = "square" THEN getArtistSquare(k)
    ELSE getICloudArt(k, name)

\* C15: whenever a generate endpoint has answered 200 with a url for key k,
\* a GET of that url on the matching retrieval endpoint serves the stored
\* file and is not answered 404.
C15_ReturnedUrlIsServed ==
    \A r \in Reqs :
        req[r].st = "done" /\ req[r].status = 200
        => GetUrl(Cls(r), Key(r), req[r].url).status = 200

\* the first name of the list order for which icloud_art/{k}.{name} exists,
\* "" when there is none
FirstExisting(k, order) ==
    LET I == {i \in 1..Len(order) : Exists(<<"icloud", k, order[i]>>)}
    IN IF I = {} THEN "" ELSE order[CHOOSE i \in I : \A j \in I : i <= j]

\* C16: lookup of a resized copy by key serves the first existing file in the
\* order jpg, jpeg, png, gif, answers 404 exactly when none of the four
\* exists, and the generate handler's existence check finds the same file.
C16_ProbeInFixedOrder ==
    deploy = "gin" =>
        \A k \in Keys :
            LET first == FirstExisting(k, <<"jpg", "jpeg", "png", "gif">>)
                got == getICloudArt(k, "")
            IN /\ got.status = 404 <=> first = ""
               /\ first # ""
                  => got = [status |-> 200, body |-> Content(<<"icloud", k, first>>)]
               /\ CacheCheck(deploy, "icloud", k) = first

\* C16 witness: two files of different content exist for one key, and the
\* lookup serves the one whose extension comes first.
C16_Witness ==
    /\ deploy = "gin"
    /\ \E k \in Keys :
          /\ Exists(<<"icloud", k, "jpeg">>) /\ Exists(<<"icloud", k, "png">>)
          /\ ~Exists(<<"icloud", k, "jpg">>)
          /\ Content(<<"icloud", k, "jpeg">>) # Content(<<"icloud", k, "png">>)
          /\ getICloudArt(k, "").body = Content(<<"icloud", k, "jpeg">>)

\* C17: a generate request that carries a url whose host is outside the
\* allow-listed domain suffix set is answered 400, and nothing is generated,
\* enqueued, fetched or written for it; one such url among several is enough.
C17_DisallowedHostIsRejected ==
    \A r \in Reqs :
        Arrived(r) /\ req[r].host = "out"
        => /\ req[r].st = "done" /\ req[r].status = 400
           /\ did[r] = {} /\ task[r] = NoTask /\ job[r] = NoJob
\* the same, for the Go services only
C17_GoRejectsDisallowedHost == deploy # "bull" => C17_DisallowedHostIsRejected
\* a Go request of several urls with one disallowed host has been answered
C17_GoWitness ==
    \E r \in Reqs :
        /\ deploy # "bull" /\ Cls(r) = "square"
        /\ req[r].n \in 2..4 /\ req[r].host = "out" /\ req[r].status = 400

\* C18: an artist-square request with fewer than 2 or more than 4 image urls
\* is answered 400 before anything is generated, enqueued, fetched or
\* written, so a square generation (run or job) only exists for 2, 3 or 4 urls.
C18_CountIsChecked ==
    \A r \in Reqs :
        Arrived(r) /\ Cls(r) = "square"
        => /\ req[r].n \notin 2..4
              => /\ req[r].st = "done" /\ req[r].status = 400
                 /\ did[r] = {} /\ task[r] = NoTask /\ job[r] = NoJob
           /\ GenerationOf(r) => req[r].n \in 2..4
\* one square request was refused for its 5 urls, another is being generated
C18_Witness ==
    \E r, q \in Reqs :
        /\ Cls(r) = "square" /\ req[r].n = 5 /\ req[r].status = 400
        /\ Cls(q) = "square" /\ Running(q)

\* The composite generator called on its own: every request is a square
\* generation started directly (generateArtistSquareAsync, the queue
\* processor's callback) over any number of urls, for any key.
SquareCalls ==
    {[NoReq EXCEPT !.st = "waiting", !.cls = "square", !.key = k, !.n = n,
                   !.host = "in"] : k \in Keys, n \in 0..MaxUrls}
SquareInit ==
    /\ deploy \in Deploys
    /\ files = [p \in Paths |-> 0]
    /\ inode = [i \in Reqs |-> NoInode]
    /\ req \in [Reqs -> SquareCalls]
    /\ task = [r \in Reqs |-> [NoTask EXCEPT !.pc = "download"]]
    /\ job = [r \in Reqs |-> NoJob]
    /\ did = [r \in Reqs |-> {}]
    /\ manifest = <<>>
    /\ stream = NoStream
    /\ imageUrls = <<>>
    /\ squareKey = NoKey
    /\ image = NoImage
    /\ decoded = NoResult
SquareNext ==
    \E r \in Reqs : Download(r) \/ Create(r) \/ EncodeWrite(r) \/ EncodeReturn(r)
SquareSpec == SquareInit /\ [][SquareNext]_vars

Returned(r) == At(r, LastStage(deploy, Cls(r)))
Wrote(r) == "write" \in did[r] \/ \E i \in Reqs : inode[i].by = r

\* C19: the composite generator called with a number of images outside
\* {2, 3, 4} fails with the unsupported-count error and writes nothing to the
\* store.
C19_UnsupportedCountFails ==
    \A r \in Reqs :
        req[r].n \notin {2, 3, 4}
        => /\ createArtistSquare(req[r].n) = "unsupported"
           /\ task[r].pc \in {"download", LastStage(deploy, "square")}
           /\ Returned(r) => task[r].err
           /\ ~Wrote(r)
\* a generation over 5 images returned, and one over 1 image
C19_Witness ==
    \E r, q \in Reqs :
        /\ req[r].n = 5 /\ Returned(r) /\ "fetch" \in did[r]
        /\ req[q].n = 1 /\ Returned(q) /\ Key(q) = Key(r)

\* The stream selection called on its own, on every playlist of up to
\* MaxRenditions renditions.
SelectInit ==
    /\ deploy = "gin"
    /\ files = [p \in Paths |-> 0]
    /\ inode = [i \in Reqs |-> NoInode]
    /\ req = [r \in Reqs |-> NoReq]
    /\ task = [r \in Reqs |-> NoTask]
    /\ job = [r \in Reqs |-> NoJob]
    /\ did = [r \in Reqs |-> {}]
    /\ manifest \in Playlists
    /\ stream = NoStream
    /\ imageUrls = <<>>
    /\ squareKey = NoKey
    /\ image = NoImage
    /\ decoded = NoResult
SelectCall ==
    /\ stream = NoStream
    /\ stream' = getHighQualityStreamURL(manifest)
    /\ UNCHANGED <<derivation, decoding, deploy, files, inode, req, task, job, did, manifest>>
SelectNext == SelectCall
SelectSpec == SelectInit /\ [][SelectNext]_vars

\* The renditions of the playlist, by number; what their metadata lines say.
RenditionIds == 1..(Len(manifest) \div 2)
CodecsOf(i) == manifest[2 * i - 1].attrs[1][2]
WidthOf(i) == manifest[2 * i - 1].attrs[2][2][1]
\* admissible: the codec list excludes hvc1 and includes avc1, and the width
\* is at least MinWidth
Admissible(i) ==
    ~Contains(CodecsOf(i), "hvc1") /\ Contains(CodecsOf(i), "avc1")
    /\ WidthOf(i) >= MinWidth
\* the url of rendition i, resolved against the playlist's url
UrlOf(i) == [manifest[2 * i] EXCEPT !.base = ~manifest[2 * i].abs]
\* the earliest of the widest renditions in A
Widest(A) ==
    CHOOSE i \in A : \A j \in A : WidthOf(j) < WidthOf(i) \/ (WidthOf(j) = WidthOf(i) /\ i <= j)
\* widths 320 and 480 with avc1, 720 with hvc1
Example ==
    Playlist(<<[codecs |-> <<"avc1">>, width |-> 320, abs |-> TRUE],
               [codecs |-> <<"avc1">>, width |-> 480, abs |-> TRUE],
               [codecs |-> <<"hvc1">>, width |-> 720, abs |-> TRUE]>>)

\* C20: on a playlist of renditions, each a metadata line followed by its url
\* line, the selection returns the url of the widest admissible rendition,
\* the earliest one among equally wide ones; on the example playlist it
\* returns the url of the 480 rendition.
C20_SelectsWidestAdmissible ==
    stream # NoStream
    => LET A == {i \in RenditionIds : Admissible(i)}
       IN /\ A # {} => stream = [err |-> "", url |-> UrlOf(Widest(A))]
          /\ manifest = Example => stream.url = UrlOf(2)
\* the same, for playlists whose url lines are all absolute and whose codec
\* lists name one codec
C20_AbsoluteSingleCodec ==
    (\A i \in RenditionIds : manifest[2 * i].abs /\ Len(CodecsOf(i)) = 1)
    => C20_SelectsWidestAdmissible
\* the example playlist has been answered with the url of its 480 rendition
C20_ExampleWitness ==
    manifest = Example /\ stream = [err |-> "", url |-> UrlOf(2)]

\* the playlist with every url line written as an absolute url
AllAbsolute(lines) ==
    [j \in 1..Len(lines) |->
        IF lines[j].tag = "url" THEN [lines[j] EXCEPT !.abs = TRUE] ELSE lines[j]]

\* C21: a rendition whose url line is relative is a candidate like one whose
\* url line is absolute: the selection picks the rendition it picks when all
\* url lines are absolute, and returns its url line resolved against the
\* playlist's url.
C21_RelativeIsCandidate ==
    stream # NoStream
    => LET abs == getHighQualityStreamURL(AllAbsolute(manifest))
       IN /\ stream.err = abs.err
          /\ stream.url.id = abs.url.id
          /\ stream.err = "" => stream.url = UrlOf(stream.url.id)

\* The clip generator called on its own: generateArtworkAsync is started for
\* every request on the url of one master playlist, hence for one key; the
\* playlist announces at most one rendition.
ClipInit ==
    /\ deploy = "gin"
    /\ files = [p \in Paths |-> 0]
    /\ inode = [i \in Reqs |-> NoInode]
    /\ req = [r \in Reqs |-> [NoReq EXCEPT !.st = "waiting", !.cls = "clip", !.key = 1,
                                           !.n = 1, !.host = "in"]]
    /\ task = [r \in Reqs |-> [NoTask EXCEPT !.pc = "select"]]
    /\ job = [r \in Reqs |-> NoJob]
    /\ did = [r \in Reqs |-> {}]
    /\ manifest \in {m \in Playlists : Len(m) <= 2}
    /\ stream = NoStream
    /\ imageUrls = <<>>
    /\ squareKey = NoKey
    /\ image = NoImage
    /\ decoded = NoResult
\* streamURL, err := getHighQualityStreamURL(urlStr) on the playlist fetched
SelectFetched(r) ==
    /\ At(r, "select")
    /\ stream' = getHighQualityStreamURL(manifest)
    /\ did' = Did(r, {"fetch"})
    /\ task' = IF stream'.err = "" THEN Goto(r, "ffmpeg") ELSE Fail(r, "cleanup")
    /\ UNCHANGED <<derivation, decoding, deploy, files, inode, req, job, manifest>>
ClipNext ==
    \E r \in Reqs :
        \/ SelectFetched(r) \/ FfmpegOpen(r) \/ FfmpegWrite(r) \/ FfmpegExit(r)
        \/ StatTemp(r) \/ Rename(r) \/ Cleanup(r)
ClipSpec == ClipInit /\ [][ClipNext]_vars

\* C22: when the playlist has no admissible rendition the selection fails
\* with "no suitable stream found"; ffmpeg is then never started and neither
\* the artifact nor the temporary file of the key is created.
C22_NoRenditionNoTranscode ==
    {i \in RenditionIds : Admissible(i)} = {}
    => /\ stream \in {NoStream, [err |-> "no suitable stream found", url |-> NoUrl]}
       /\ \A r \in Reqs :
             /\ task[r].pc \in {"select", "cleanup", "send"}
             /\ ~At(r, "select") => task[r].err
             /\ did[r] \subseteq {"fetch"}
       /\ \A p \in Paths : ~Exists(p)
\* the same, when what isValidStream sees of each codec list is the whole list
C22_SingleCodecLists ==
    (\A i \in RenditionIds : Len(CodecsOf(i)) = 1) => C22_NoRenditionNoTranscode
\* both runs failed on a playlist whose one rendition names hvc1 alone
C22_SingleWitness ==
    /\ Len(manifest) = 2 /\ CodecsOf(1) = <<"hvc1">>
    /\ \A r \in Reqs : At(r, "send") /\ task[r].err

\* The key derivation called on its own, as the artist-square handlers call
\* it on the url slice of the request.
KeyInit ==
    /\ deploy = "gin"
    /\ files = [p \in Paths |-> 0]
    /\ inode = [i \in Reqs |-> NoInode]
    /\ req = [r \in Reqs |-> NoReq]
    /\ task = [r \in Reqs |-> NoTask]
    /\ job = [r \in Reqs |-> NoJob]
    /\ did = [r \in Reqs |-> {}]
    /\ manifest = <<>>
    /\ stream = NoStream
    /\ imageUrls \in KeyInputs
    /\ squareKey = NoKey
    /\ image = NoImage
    /\ decoded = NoResult
\* key := generateArtistSquareKey(request.ImageURLs)
DeriveKey ==
    /\ squareKey = NoKey
    /\ squareKey' = generateArtistSquareKey(imageUrls).key
    /\ imageUrls' = generateArtistSquareKey(imageUrls).imageUrls
    /\ UNCHANGED <<selection, decoding, deploy, files, inode, req, task, job, did>>
KeyNext == DeriveKey
KeySpec == KeyInit /\ [][KeyNext]_vars

\* the permutations of a list
Reorderings(list) ==
    {[i \in 1..Len(list) |-> list[f[i]]] :
        f \in {g \in [1..Len(list) -> 1..Len(list)] :
                  \A i, j \in 1..Len(list) : g[i] = g[j] => i = j}}

\* C23: every permutation of a url list derives the key the list derives.
C23_KeyIgnoresOrder ==
    squareKey # NoKey
    => \A p \in Reorderings(imageUrls) : generateArtistSquareKey(p).key = squareKey
\* a key was derived for a list of three different urls
C23_Witness ==
    /\ squareKey # NoKey /\ Len(imageUrls) = 3
    /\ Cardinality({imageUrls[i] : i \in 1..3}) = 3

\* the urls of a list, as a set
UrlSet(list) == {list[i] : i \in 1..Len(list)}
\* the bytes generateArtistSquareKey hands to md5 for a list
DigestInput(list) == generateArtistSquareKey(list).key.of

\* C24: two url lists whose url sets differ derive different keys, the digest
\* being collision-free: they never give md5 the same bytes.
C24_DifferentSetsDifferentKeys ==
    squareKey # NoKey
    => \A other \in KeyInputs :
          UrlSet(other) # UrlSet(imageUrls)
          => generateArtistSquareKey(other).key # squareKey
\* the same, for lists of urls of one length
C24_SameLengthUrls ==
    squareKey # NoKey
    => \A other \in KeyInputs :
          /\ UrlSet(other) # UrlSet(imageUrls)
          /\ \A u \in UrlSet(other) \cup UrlSet(imageUrls) : Len(u) = MaxUrlLen
          /\ Len(other) = Len(imageUrls)
          => DigestInput(other) # squareKey.of

\* C25: deriving the key has no side effect: the call leaves the caller's url
\* slice in the order it had, which is the order in which the images are then
\* fetched and laid out.
C25_KeyLeavesSliceAlone ==
    [][squareKey' # squareKey => imageUrls' = imageUrls]_vars
\* the same, for the set of urls in the slice
C25_KeyKeepsUrls ==
    [][squareKey' # squareKey
       => UrlSet(imageUrls') = UrlSet(imageUrls) /\ Len(imageUrls') = Len(imageUrls)]_vars

\* the run has composed its square in memory
Composed(r) == Cls(r) = "square" /\ task[r].pc \in {"create", "write", "close"}
Half == Size \div 2
Area(c) == (c.x1 - c.x0) * (c.y1 - c.y0)
Overlap(a, b) == a.x0 < b.x1 /\ b.x0 < a.x1 /\ a.y0 < b.y1 /\ b.y0 < a.y1
RECURSIVE TotalArea(_)
TotalArea(cells) == IF Len(cells) = 0 THEN 0 ELSE Area(Head(cells)) + TotalArea(Tail(cells))
\* the cells are inside the canvas, pairwise disjoint, and cover it
Tiles(cells) ==
    /\ \A i \in 1..Len(cells) :
          /\ 0 <= cells[i].x0 /\ cells[i].x0 < cells[i].x1 /\ cells[i].x1 <= Size
          /\ 0 <= cells[i].y0 /\ cells[i].y0 < cells[i].y1 /\ cells[i].y1 <= Size
    /\ \A i, j \in 1..Len(cells) : i # j => ~Overlap(cells[i], cells[j])
    /\ TotalArea(cells) = Size * Size

\* C26: with S = 500, 2 images go to the left and right S/2 x S halves; of 3
\* images, image 0 goes to the top S x S/2 band and images 1 and 2 to the
\* bottom-left and bottom-right S/2 x S/2 cells; 4 images go to the four
\* S/2 x S/2 quadrants in row-major order; the cells of each count are
\* pairwise disjoint and exactly cover the canvas.
C26_LayoutTilesCanvas ==
    \A r \in Reqs :
        Composed(r)
        => LET n == req[r].n
               cells == Cells(n)
           IN /\ Size = 500 /\ Len(cells) = n
              /\ n = 2 => cells = <<Rect(0, 0, Half, Size), Rect(Half, 0, Size, Size)>>
              /\ n = 3 => cells = <<Rect(0, 0, Size, Half), Rect(0, Half, Half, Size),
                                    Rect(Half, Half, Size, Size)>>
              /\ n = 4 => cells = <<Rect(0, 0, Half, Half), Rect(Half, 0, Size, Half),
                                    Rect(0, Half, Half, Size), Rect(Half, Half, Size, Size)>>
              /\ Tiles(cells)
\* squares of 3 and of 4 images have been composed
C26_Witness ==
    \E r, q \in Reqs : Composed(r) /\ req[r].n = 3 /\ Composed(q) /\ req[q].n = 4

\* a handler of the part_002 service answers request r for a class it queues
DeferredAnswer(r) ==
    /\ deploy = "asynq" /\ req[r].st = "new" /\ req'[r].st # "new"
    /\ Queued(deploy, req'[r].cls)
\* ... and the request was valid and its artifact was not in the store
DeferredMiss(r) ==
    /\ DeferredAnswer(r)
    /\ req'[r].status # 400
    /\ CacheCheck(deploy, req'[r].cls, req'[r].key) = ""

\* C27: in deferred queue mode a generate request that misses the cache
\* enqueues exactly one job carrying the request's key and input and is
\* answered 202 at once, without waiting for the job; when enqueueing fails it
\* is answered 500 and there is no job for it.
C27_MissEnqueuesOneJob ==
    [][\A r \in Reqs :
          /\ DeferredMiss(r)
             => /\ req'[r].st = "done" /\ req'[r].status \in {202, 500}
                /\ task' = task
                /\ \A q \in Reqs \ {r} : job'[q] = job[q]
                /\ req'[r].status = 202
                   => /\ job[r] = NoJob
                      /\ job'[r] = [st |-> "queued", tries |-> 0, cls |-> req'[r].cls,
                                    key |-> req'[r].key, n |-> req'[r].n,
                                    host |-> req'[r].host, decodes |-> TRUE]
                /\ req'[r].status = 500 => job'[r] = NoJob
          /\ deploy = "asynq" /\ Queued(deploy, Cls(r)) /\ req[r].status = 500
             => job'[r] = NoJob]_vars
\* one request was accepted and its job waits in the queue, another was
\* refused because its job could not be enqueued
C27_Witness ==
    /\ deploy = "asynq"
    /\ \E r, q \in Reqs :
          /\ req[r].st = "done" /\ req[r].status = 202 /\ job[r].st = "queued"
          /\ job[r].key = req[r].key /\ job[r].n = req[r].n
          /\ req[q].st = "done" /\ req[q].status = 500 /\ req[q].msg = "queuefail"
          /\ job[q] = NoJob

\* the stages of generateArtworkAsync, its deferred function included
ClipStages == {"select", "ffmpeg", "write", "close", "stat", "rename", "cleanup"}
\* a run of generateArtworkAsync for key k has not returned yet
ClipRunning(k) ==
    \E q \in Reqs : Cls(q) = "clip" /\ Key(q) = k /\ task[q].pc \in ClipStages
\* run r of generateArtworkAsync returns in this step
ClipReturns(r) == GoClip(r) /\ At(r, "cleanup") /\ task'[r].pc # "cleanup"

Judged(i) == isValidStream(parseStreamInfo(manifest[2 * i - 1]))

\* C29: a rendition is judged admissible iff its codec list, every codec
\* named in the CODECS attribute of its metadata line, excludes hvc1 and
\* includes avc1, and its width is at least 450.
C29_JudgedIffAdmissible ==
    stream # NoStream
    => /\ MinWidth = 450
       /\ \A i \in RenditionIds : Judged(i) <=> Admissible(i)
\* the same, for playlists whose CODECS attributes name one codec each
C29_SingleCodec ==
    (\A i \in RenditionIds : Len(CodecsOf(i)) = 1) => C29_JudgedIffAdmissible

\* The stream selection called on its own, on every playlist of up to
\* MaxBadRenditions renditions whose metadata lines have at most one
\* malformed attribute each.
ParseInit ==
    /\ deploy = "gin"
    /\ files = [p \in Paths |-> 0]
    /\ inode = [i \in Reqs |-> NoInode]
    /\ req = [r \in Reqs |-> NoReq]
    /\ task = [r \in Reqs |-> NoTask]
    /\ job = [r \in Reqs |-> NoJob]
    /\ did = [r \in Reqs |-> {}]
    /\ manifest \in BadPlaylists
    /\ stream = NoStream
    /\ imageUrls = <<>>
    /\ squareKey = NoKey
    /\ image = NoImage
    /\ decoded = NoResult
ParseSpec == ParseInit /\ [][SelectNext]_vars

\* an attribute that is a key=value pair whose value can be parsed
WellFormed(a) ==
    /\ Len(a) = 2
    /\ a[1] = "BANDWIDTH" => a[2] # NotANumber
    /\ a[1] = "RESOLUTION"
       => Len(a[2]) = 2 /\ a[2][1] # NotANumber /\ a[2][2] # NotANumber
\* a line, and a playlist, without the malformed attributes
CleanLine(line) ==
    IF line.tag = "inf" THEN [line EXCEPT !.attrs = SelectSeq(@, WellFormed)] ELSE line
CleanPlaylist(lines) == [j \in 1..Len(lines) |-> CleanLine(lines[j])]
\* the metadata lines of the playlist
InfLines == {j \in 1..Len(manifest) : manifest[j].tag = "inf"}
HasMalformed(j) == \E i \in 1..Len(manifest[j].attrs) : ~WellFormed(manifest[j].attrs[i])

DownloadInit ==
    /\ deploy = "gin"
    /\ files = [p \in Paths |-> 0]
    /\ inode = [i \in Reqs |-> NoInode]
    /\ req = [r \in Reqs |-> NoReq]
    /\ task = [r \in Reqs |-> NoTask]
    /\ job = [r \in Reqs |-> NoJob]
    /\ did = [r \in Reqs |-> {}]
    /\ manifest = <<>>
    /\ stream = NoStream
    /\ imageUrls = <<>>
    /\ squareKey = NoKey
    /\ image \in Images
    /\ decoded = NoResult
CallByType ==
    /\ decoded = NoResult
    /\ decoded' = downloadImageByType(image)
    /\ UNCHANGED <<selection, derivation, deploy, files, inode, req, task, job, did, image>>
CallDownloadImage ==
    /\ decoded = NoResult
    /\ decoded' = downloadImage(image)
    /\ UNCHANGED <<selection, derivation, deploy, files, inode, req, task, job, did, image>>
DownloadNext == CallByType \/ CallDownloadImage
DownloadSpec == DownloadInit /\ [][DownloadNext]_vars

\* the sources of format information, in the order of the decoding policy
Order == <<"ctype", "generic", "webp", "suffix">>
\* the format a content type or a path suffix names, "" when it names none
Named(text) == IF text = "jpg" THEN "jpeg" ELSE IF text \in Registered THEN text ELSE ""
DeclaredType == IF image.ctype = "" /\ image.head # "fail" THEN image.head ELSE image.ctype
\* a source succeeds when it yields a format the bytes decode as
Works(source) ==
    IF source = "ctype" THEN Named(DeclaredType) # "" /\ image.data = Named(DeclaredType)
    ELSE IF source = "generic" THEN image.data \in Registered
    ELSE IF source = "webp" THEN image.data = "webp"
    ELSE Named(image.ext) # "" /\ image.data = Named(image.ext)
\* the sources the policy consults: all up to the first that succeeds
Consulted ==
    IF \E i \in 1..Len(Order) : Works(Order[i])
    THEN SubSeq(Order, 1, CHOOSE i \in 1..Len(Order) :
                             Works(Order[i]) /\ \A j \in 1..(i - 1) : ~Works(Order[j]))
    ELSE Order
\* the call got as far as decoding the bytes it fetched
ReachedDecoding == decoded # NoResult /\ Len(decoded.tried) > 0

\* C31: image decoding tries its sources of format information in the order
\* content type, generic decode, WebP decode, url path suffix, stops at the
\* first that succeeds, and fails with a decode error exactly when all fail.
C31_DecodingOrder ==
    ReachedDecoding
    => /\ decoded.tried = Consulted
       /\ decoded.err = "" <=> \E i \in 1..Len(Order) : Works(Order[i])
\* a weaker statement: a call that returns an image has decoded the bytes,
\* and a call on bytes no decoder accepts fails
C31_SuccessMeansDecoded ==
    ReachedDecoding
    => /\ decoded.err = "" => image.data \in Registered
       /\ image.data = "junk" => decoded.err # ""

\* run q of the clip generator is writing the temporary file of its key: its
\* transcoder holds the file that is linked at {key}_temp.gif
WritingTemp(q) ==
    /\ GoClip(q) /\ task[q].pc \in {"write", "close"}
    /\ files[TempPath(Key(q))] = task[q].ino
\* this step is a step of run r
StepOf(r) == task'[r] # task[r]

\* C32: when two AnimatedClip generation runs for the same key overlap,
\* neither removes, overwrites or renames the temporary file the other is
\* still writing, and the file that ends up at the final path is the complete
\* output of one run.
C32_OverlappingRunsKeepApart ==
    /\ [][\A r, q \in Reqs :
             r # q /\ GoClip(r) /\ SameKey(r, q) /\ WritingTemp(q) /\ StepOf(r)
             => /\ files'[TempPath(Key(q))] = files[TempPath(Key(q))]
                /\ inode'[task[q].ino] = inode[task[q].ino]]_vars
    /\ [](deploy # "bull"
          => \A k \in Keys : Content(<<"clip", k, "gif">>) \in {"none", "full"})
\* the same, for a run whose key no other run works on
C32_RunAlone ==
    [](\A r \in Reqs :
          GoClip(r) /\ Alone(r) /\ task[r].pc \in {"send", "done"} /\ ~task[r].err
          => Content(<<"clip", Key(r), "gif">>) = "full")

\* The service under fair scheduling in which, besides, a handler that waits in
\* its select receives a result that is offered to it.
WaitFairSpec == FairSpec /\ \A r \in Reqs : WF_vars(Receive(r))

\* the goroutine of request r has finished its pipeline and offers its result
Offering(r) == ~Queued(deploy, Cls(r)) /\ At(r, "send")
\* the goroutine has ended
Ended(r) == task[r].pc = "done"

\* C33: every generation task spawned by a generate handler eventually
\* terminates once its pipeline has finished, also when the handler's bounded
\* wait has timed out and nobody receives the task's result any more.
C33_TaskTerminates == \A r \in Reqs : Offering(r) ~> Ended(r)
\* a weaker statement: a task whose handler still waits when the pipeline has
\* finished and does not time out after that terminates
C33_ReceivedTaskTerminates ==
    \A r \in Reqs : [](Offering(r) => req[r].st = "waiting") => (Offering(r) ~> Ended(r))

\* The stream selection called on its own, on every manifest of up to
\* MaxLines lines, each a metadata line, an absolute or a relative url line,
\* or another line (a comment, another tag, an empty line), in any order. A
\* url line and another line are identified by their position.
LineKinds ==
    {k \in [tag : {"inf", "url", "other"},
            codecs : {<<"avc1">>, <<"hvc1">>, <<"avc1", "hvc1">>}, width : Widths,
            abs : BOOLEAN] :
        /\ k.tag # "inf" => k.codecs = <<"avc1">> /\ k.width = 320
        /\ k.tag # "url" => k.abs = (k.tag = "inf")}
LineAt(kind, j) ==
    IF kind.tag = "inf" THEN InfLine(kind)
    ELSE [tag |-> kind.tag, abs |-> kind.abs, id |-> j, base |-> FALSE]
Lines(kinds) == [j \in 1..Len(kinds) |-> LineAt(kinds[j], j)]
Manifests == {Lines(kinds) : kinds \in UNION {[1..n -> LineKinds] : n \in 0..MaxLines}}
ManifestInit ==
    /\ deploy = "gin"
    /\ files = [p \in Paths |-> 0]
    /\ inode = [i \in Reqs |-> NoInode]
    /\ req = [r \in Reqs |-> NoReq]
    /\ task = [r \in Reqs |-> NoTask]
    /\ job = [r \in Reqs |-> NoJob]
    /\ did = [r \in Reqs |-> {}]
    /\ manifest \in Manifests
    /\ stream = NoStream
    /\ imageUrls = <<>>
    /\ squareKey = NoKey
    /\ image = NoImage
    /\ decoded = NoResult
ManifestSpec == ManifestInit /\ [][SelectNext]_vars

\* the metadata line the url line at position j belongs to: the nearest
\* metadata line in front of it with no url line in between, 0 when there is
\* none
Owner(j) ==
    LET C == {i \in 1..(j - 1) :
                 /\ manifest[i].tag = "inf"
                 /\ \A m \in (i + 1)..(j - 1) : manifest[m].tag # "url"}
    IN IF C = {} THEN 0 ELSE CHOOSE i \in C : \A m \in C : m <= i
\* the rendition announced by the metadata line at position i is admissible
AdmissibleLine(i) ==
    LET codecs == manifest[i].attrs[1][2]
        width == manifest[i].attrs[2][2][1]
    IN ~Contains(codecs, "hvc1") /\ Contains(codecs, "avc1") /\ width >= MinWidth

\* C34: for every manifest, any sequence of metadata lines, absolute or
\* relative url lines and other lines, a url that getHighQualityStreamURL
\* returns is the url line of an admissible rendition, never the url line
\* of an inadmissible one.
C34_ReturnsAdmissibleUrl ==
    stream # NoStream /\ stream.err = ""
    => /\ manifest[stream.url.id].tag = "url"
       /\ Owner(stream.url.id) # 0
       /\ AdmissibleLine(Owner(stream.url.id))
\* the same, for manifests in which every metadata line names one codec and
\* is directly followed by an absolute url line
C34_PairedAbsoluteSingle ==
    (\A i \in 1..Len(manifest) :
        manifest[i].tag = "inf"
        => /\ Len(manifest[i].attrs[1][2]) = 1
           /\ i < Len(manifest) /\ manifest[i + 1].tag = "url" /\ manifest[i + 1].abs)
    => C34_ReturnsAdmissibleUrl

\* the final paths of the artifact of class c and key k
FinalsOf(c, k) == {p \in FinalPaths : p[1] = c /\ p[2] = k}
\* a generate handler answers request r with 200 in this step
Answers200(r) == req[r].st # "done" /\ req'[r].st = "done" /\ req'[r].status = 200

\* C35: a generate handler sends a 200 response ("already exists" or "has
\* been generated") for a key only in a state where the artifact file exists
\* at the final path of that key.
C35_OkOnlyWhenFileExists ==
    [][\A r \in Reqs :
          Answers200(r)
          => /\ req'[r].msg \in {"exists", "generated"}
             /\ \E p \in FinalsOf(req'[r].cls, req'[r].key) : files[p] # 0 /\ files'[p] # 0]_vars
\* one request was answered "has been generated", a later one for the same
\* key "already exists"
C35_Witness ==
    \E r, q \in Reqs :
        /\ r # q /\ SameKey(r, q)
        /\ req[r].st = "done" /\ req[r].status = 200 /\ req[r].msg = "generated"
        /\ req[q].st = "done" /\ req[q].status = 200 /\ req[q].msg = "exists"

\* the generation run of request r has returned nil
ReturnedNil(r) == task[r].pc \in {"send", "end", "done"} /\ ~task[r].err
\* a file of the key is found by the probe over ProbeOrder
Probed(k) == \E i \in 1..Len(ProbeOrder) : Exists(<<"icloud", k, ProbeOrder[i]>>)

\* C36: whenever a ResizedCopy generation returns success, a file {key}.{ext}
\* with ext in the probe list jpg, jpeg, png, gif exists, so the handler's
\* probe after a successful generation never ends in "Failed to locate
\* generated iCloud art".
C36_SuccessIsFoundByProbe ==
    \A r \in Reqs :
        /\ Cls(r) = "icloud" /\ ReturnedNil(r) => Probed(Key(r))
        /\ req[r].msg # "notfound"
\* a ResizedCopy generation that decoded a png has returned success and its
\* handler has answered 200 with the file the probe found
C36_Witness ==
    \E r \in Reqs :
        /\ deploy = "gin" /\ Cls(r) = "icloud" /\ ReturnedNil(r) /\ task[r].fmt = "png"
        /\ req[r].st = "done" /\ req[r].status = 200 /\ req[r].url = "png"

\* the paths named after key k in the directory of class c
NamedAfter(c, k) == {p \in Paths : p[1] = c /\ p[2] = k}
\* this step is a step of the generation run of request r
RunStepOf(r) == Arrived(r) /\ task[r].pc # "none" /\ task'[r] # task[r]

\* C37: a generation run for key k in one artifact class creates, modifies
\* and removes only files named after k in that class's directory; files of
\* other keys and of other classes are left unchanged.
C37_RunTouchesOnlyItsKey ==
    [][\A r \in Reqs :
          RunStepOf(r)
          => \A p \in Paths \ NamedAfter(Cls(r), Key(r)) :
                /\ files'[p] = files[p]
                /\ files[p] # 0 => inode'[files[p]] = inode[files[p]]]_vars
\* the runs of two requests for different artifacts have both written, and
\* the file of each is whole
C37_Witness ==
    \E r, q \in Reqs :
        /\ Arrived(r) /\ Arrived(q) /\ ~SameKey(r, q)
        /\ "write" \in did[r] /\ "write" \in did[q]
        /\ \E p \in NamedAfter(Cls(r), Key(r)) : Content(p) = "full"
        /\ \E p \in NamedAfter(Cls(q), Key(q)) : Content(p) = "full"

\* The queue workers of the asynq service on their own: the queue holds one
\* task per request, of either type, whose payload json.Unmarshal accepts or
\* refuses; the requests were answered 202 when the tasks were enqueued.
TaskJobs ==
    {[st |-> "queued", tries |-> 0, cls |-> c, key |-> k,
      n |-> IF c = "square" THEN 2 ELSE 1, host |-> "in", decodes |-> d] :
        c \in {"square", "icloud"}, k \in Keys, d \in BOOLEAN}
TaskInit ==
    /\ deploy = "asynq"
    /\ files = [p \in Paths |-> 0]
    /\ inode = [i \in Reqs |-> NoInode]
    /\ job \in [Reqs -> TaskJobs]
    /\ req = [r \in Reqs |->
                [NoReq EXCEPT !.st = "done", !.cls = job[r].cls, !.key = job[r].key,
                              !.status = 202, !.url = "jpg", !.msg = "processing",
                              !.n = job[r].n, !.host = job[r].host]]
    /\ task = [r \in Reqs |-> NoTask]
    /\ did = [r \in Reqs |-> {"enqueue"}]
    /\ manifest = <<>>
    /\ stream = NoStream
    /\ imageUrls = <<>>
    /\ squareKey = NoKey
    /\ image = NoImage
    /\ decoded = NoResult
TaskNext ==
    \E r \in Reqs :
        \/ JobStart(r) \/ JobReturn(r)
        \/ Download(r) \/ Create(r) \/ EncodeWrite(r) \/ EncodeReturn(r)
TaskSpec == TaskInit /\ [][TaskNext]_vars

\* C38: a queue job whose payload cannot be decoded fails permanently: it is
\* never retried and it performs no store check, fetch or store write. The
\* worker that takes it archives it whatever the store holds, and it stays
\* archived.
C38_UndecodableJobFailsForGood ==
    /\ [](\A r \in Reqs :
             ~job[r].decodes
             => /\ job[r].st \in {"queued", "dead"} /\ job[r].tries = 0
                /\ task[r] = NoTask /\ did[r] = {"enqueue"})
    /\ [][\A r \in Reqs :
             /\ ~job[r].decodes /\ job'[r] # job[r]
                => /\ job[r].st = "queued" /\ job'[r] = [job[r] EXCEPT !.st = "dead"]
                   /\ files' = files /\ inode' = inode
             /\ ~job[r].decodes /\ job[r].st = "dead" => job'[r] = job[r]]_vars
\* a job with an undecodable payload was archived although the artifact of
\* its key was in the store, written by a job with the same key
C38_Witness ==
    \E r, q \in Reqs :
        /\ ~job[r].decodes /\ job[r].st = "dead"
        /\ job[q].decodes /\ job[q].st = "done" /\ SameKey(r, q)
        /\ CacheCheck(deploy, Cls(r), Key(r)) # ""

\* C39: downloadImage tries the HTTP fetch at most 3 times, stops retrying at
\* the first successful attempt, and returns a download error only after all
\* 3 attempts have failed.
C39_ThreeAttempts ==
    decoded.by = "part_000"
    => /\ decoded.tries \in 1..3
       /\ decoded.err = "failed to download image"
          <=> \A i \in 1..3 : ~image.fetch[i]
       /\ decoded.err # "failed to download image"
          => /\ image.fetch[decoded.tries]
             /\ \A i \in 1..(decoded.tries - 1) : ~image.fetch[i]
\* the download error was returned after three failed attempts, although a
\* fourth attempt would have succeeded
C39_Witness ==
    /\ decoded.by = "part_000"
    /\ decoded.err = "failed to download image"
    /\ decoded.tries = 3
    /\ image.fetch[4]

====
